---- MODULE Spec2Model ----
(***************************************************************************)
(* Verification model of the debug-and-provisioning service                *)
(* (src-tauri): the PDSC parser, the flash programming engine, the         *)
(* firmware verifier, the Main/RTT session slots, the RTT polling task,    *)
(* the FLM extractor, the target YAML generator, the scan report and the   *)
(* pack store.                                                             *)
(* Each subsystem has its own specification over the shared variables.     *)
(***************************************************************************)
EXTENDS Integers, Sequences, FiniteSets, TLC

VARIABLES
    \* ---- PDSC parser (pack/target_gen.rs, parse_devices_from_pdsc)
    ps,          \* the parser's local state while it reads the document
    ps_sc,       \* the same parser reading the document with every <x ..></x> written <x ../>
    pending,     \* the Start event the rewritten document still holds back
    stack,       \* the document's currently open elements
    n_events,    \* events of the document read so far
    n_named,     \* <device> elements with a non-empty Dname read inside <devices>
    ref,         \* what each open level has declared so far (processor, flash, ram, algorithm)
    expect,      \* per emitted device: the most specific declaration of each setting
    parse_done,  \* Event::Eof was read
    scan_progress,  \* the PackScanProgress values the progress callback was called with
    \* ---- flash programming and verification (commands/flash.rs)
    session,     \* AppState.session: the Main slot
    file,        \* the firmware file on disk
    chip,        \* the target's flash: the last programmed image and a later corruption
    fl,          \* the flash_firmware operation: position, options, format, ProgressState, result
    fl_ev,       \* the flash-progress events of the operation: the last one, the highest earlier progress
    loader_left, \* progress events the flash loader will still report
    vf,          \* the last verify_firmware call: result, chunks read, reported address
    \* ---- session slots (commands/probe.rs, state.rs)
    rtt_session,          \* AppState.rtt_session: the RTT slot
    connection_info,      \* AppState.connection_info
    rtt_connection_info,  \* AppState.rtt_connection_info
    conn,        \* per slot: the connect_target / connect_rtt call in progress
    disc,        \* per slot: the disconnect / disconnect_rtt call in progress
    released,    \* the last session dropped from a slot, and whether its core was run first
    next_id,     \* identity of the next session a probe attach creates
    \* ---- RTT polling (commands/rtt.rs)
    rtt_state,   \* RttState: running, control_block_address
    start,       \* the start_rtt call in progress
    task,        \* rtt_polling_task: position and locals
    rtt_status,  \* the rtt-status events emitted by the current polling task
    rtt_emitted, \* the rtt-data events emitted by the current polling task
    rtt_produced, \* the events the per-tick reads of the current polling task returned
    rtt_unread,  \* events' worth of bytes the target will still write to its up channels
    rtt_options, \* the RttStartOptions the front end calls start_rtt with
    \* ---- FLM extraction (pack/flash_algo.rs)
    flm,         \* the arguments of extract_flash_algorithm_from_flm: the FLM file, flash_start, flash_size
    algo,        \* the AppResult<FlashAlgorithm> the call returned
    \* ---- target generation and scan report (pack/target_gen.rs, pack/scan_report.rs)
    pack,        \* the arguments of generate_probe_rs_yaml_with_algo: the devices, the pack's FLM files
    yaml,        \* the AppResult<String> the call returned, as the document's structure
    rescan,      \* what a second call with the same arguments returned
    report,      \* a PackScanReport
    \* ---- pack store (commands/config.rs)
    store,       \* per imported pack: its directory's targets.yaml, its devices, its FLM files
    outdated,    \* what the last check_outdated_packs returned, and the last rescan_pack result
    legacy,      \* the packs of the legacy directory, how often each was copied into the store, and those deleted afterwards
    \* ---- probe enumeration (commands/probe.rs list_probes)
    probes,      \* the USB devices nusb finds and the probes probe-rs lists
    probe_infos, \* the Vec<ProbeInfo> list_probes returned
    \* ---- terminal data plane (serial/local.rs, serial/tcp.rs)
    serial,      \* the data source: its kind, its port or stream, its SerialStats
    \* ---- memory access (commands/memory.rs, erase_chip, read_flash, write_rtt)
    mem_result,  \* the last of these commands that returned
    \* ---- the mutexes of AppState (state.rs) and the threads that take them
    lock_owner,  \* per mutex: the thread that holds its guard
    threads      \* per thread: the command it runs and its next lock operation

pdscVars == <<ps, ps_sc, pending, stack, n_events, n_named, ref, expect, parse_done, scan_progress>>

flashVars == <<session, file, chip, fl, fl_ev, loader_left, vf>>

slotVars ==
    <<rtt_session, connection_info, rtt_connection_info, conn, disc, released, next_id>>

rttVars == <<rtt_state, start, task, rtt_status, rtt_emitted, rtt_produced, rtt_unread,
             rtt_options>>

packVars == <<flm, algo, pack, yaml, rescan, report, store, outdated, legacy>>

lockVars == <<lock_owner, threads>>

ioVars == <<probes, probe_infos, serial, mem_result, lockVars>>

nonPdscVars == <<flashVars, slotVars, rttVars, packVars, ioVars>>

nonFlashVars == <<pdscVars, slotVars, rttVars, packVars, ioVars>>

nonPackVars == <<pdscVars, flashVars, slotVars, rttVars, ioVars>>

nonIoVars == <<pdscVars, flashVars, slotVars, rttVars, packVars>>

vars == <<pdscVars, flashVars, slotVars, rttVars, packVars, ioVars>>

\* Option<T>: None is the empty sequence, Some(v) the one-element sequence.
None == <<>>

Some(v) == <<v>>

IsSome(o) == o # <<>>

Unwrap(o) == o[1]

\* Option::or_else
OrElse(a, b) == IF IsSome(a) THEN a ELSE b

\* Option::unwrap_or
UnwrapOr(o, d) == IF IsSome(o) THEN o[1] ELSE d

\* let v = x; Body(v): x is evaluated once.
LetIn(x, Body(_)) == CHOOSE r \in {Body(v) : v \in {x}} : TRUE

(***************************************************************************)
(* PDSC parser                                                             *)
(***************************************************************************)

\* Bounds of the documents read: elements per document, <device> elements per document.
MaxElements == 6

MaxDevices == 2

MainSramStart == 536870912

EmptyProcessor == [core |-> "", fpu |-> FALSE, mpu |-> FALSE]

EmptyMemory == [ram_start |-> 0, ram_size |-> 0, flash_start |-> 0, flash_size |-> 0]

\* val == "1" || val.to_lowercase() == "true"
AttrIsTrue(val) == val \in {"1", "true", "True", "TRUE"}

\* val == "1" || lower == "true" || lower == "sp_fpu"
AttrIsFpu(val) == AttrIsTrue(val) \/ val \in {"sp_fpu", "SP_FPU"}

\* mem_id_upper.contains("IROM") || contains("FLASH") || contains("ROM")
IsFlashId(id) == id \in {"IROM1", "IROM2", "FLASH", "ROM"}

\* mem_id_upper.contains("IRAM") || contains("RAM") || contains("SRAM")
IsRamId(id) == id \in {"IRAM1", "IRAM2", "RAM", "SRAM"}

PsInit ==
    [ in_devices |-> FALSE, in_family |-> FALSE, in_subfamily |-> FALSE, in_device |-> FALSE,
      family_processor |-> None, family_memory |-> None, family_algorithm |-> None,
      subfamily_processor |-> None, subfamily_memory |-> None, subfamily_algorithm |-> None,
      current_device |-> None, current_processor |-> None,
      devices |-> <<>> ]

\* <processor>: the attributes become a ProcessorInfo stored at the innermost level.
FoldProcessor(s, a) ==
    LET proc_info == [core |-> a.Dcore, fpu |-> AttrIsFpu(a.Dfpu), mpu |-> AttrIsTrue(a.Dmpu)]
    IN  IF s.in_device THEN [s EXCEPT !.current_processor = Some(proc_info)]
        ELSE IF s.in_subfamily THEN [s EXCEPT !.subfamily_processor = Some(proc_info)]
        ELSE IF s.in_family THEN [s EXCEPT !.family_processor = Some(proc_info)]
        ELSE s

\* The update of one MemoryInfo by one <memory> element.
FoldRegion(mem, a) ==
    LET is_default == AttrIsTrue(a.default)
    IN  IF IsFlashId(a.id)
        THEN IF mem.flash_size = 0 \/ is_default \/ a.size > mem.flash_size
             THEN [mem EXCEPT !.flash_start = a.start, !.flash_size = a.size]
             ELSE mem
        ELSE IF IsRamId(a.id)
        THEN IF mem.ram_size = 0 \/ is_default
                \/ (a.start >= MainSramStart /\ mem.ram_start < MainSramStart)
             THEN [mem EXCEPT !.ram_start = a.start, !.ram_size = a.size]
             ELSE mem
        ELSE mem

\* <memory>: the target MemoryInfo is the device's, else the subFamily's, else the family's.
FoldMemory(s, a) ==
    IF s.in_device
    THEN IF IsSome(s.current_device)
         THEN [s EXCEPT !.current_device =
                  Some([Unwrap(s.current_device) EXCEPT
                           !.memory = FoldRegion(Unwrap(s.current_device).memory, a)])]
         ELSE s
    ELSE IF s.in_subfamily
    THEN [s EXCEPT !.subfamily_memory = Some(FoldRegion(UnwrapOr(s.subfamily_memory, EmptyMemory), a))]
    ELSE IF s.in_family
    THEN [s EXCEPT !.family_memory = Some(FoldRegion(UnwrapOr(s.family_memory, EmptyMemory), a))]
    ELSE s

\* <algorithm name=..>
FoldAlgorithm(s, a) ==
    IF s.in_device
    THEN IF IsSome(s.current_device)
         THEN [s EXCEPT !.current_device =
                  Some([Unwrap(s.current_device) EXCEPT !.flash_algorithm = Some(a.name)])]
         ELSE s
    ELSE IF s.in_subfamily THEN [s EXCEPT !.subfamily_algorithm = Some(a.name)]
    ELSE IF s.in_family THEN [s EXCEPT !.family_algorithm = Some(a.name)]
    ELSE s

StartDeviceUnnamed(s, a) ==
    [s EXCEPT
        !.in_device = TRUE,
        !.current_device = Some(
            [ name |-> a.Dname,
              processor |-> UnwrapOr(OrElse(s.subfamily_processor, s.family_processor), EmptyProcessor),
              memory |-> UnwrapOr(OrElse(s.subfamily_memory, s.family_memory), EmptyMemory),
              flash_algorithm |-> OrElse(s.subfamily_algorithm, s.family_algorithm) ])]

\* <device Dname=..> start: a named device starts from the inherited settings.
StartDevice(s, a) ==
    IF a.Dname # ""
    THEN [s EXCEPT
            !.in_device = TRUE,
            !.current_device = Some(
                [ name |-> a.Dname,
                  processor |-> UnwrapOr(OrElse(s.subfamily_processor, s.family_processor), EmptyProcessor),
                  memory |-> UnwrapOr(OrElse(s.subfamily_memory, s.family_memory), EmptyMemory),
                  flash_algorithm |-> OrElse(s.subfamily_algorithm, s.family_algorithm) ])]
    ELSE [s EXCEPT !.in_device = TRUE]

\* Event::Start
OnStart(s, name, a) ==
    IF name = "devices" THEN [s EXCEPT !.in_devices = TRUE]
    ELSE IF name = "family" /\ s.in_devices
    THEN [s EXCEPT !.in_family = TRUE, !.family_processor = None,
                   !.family_memory = None, !.family_algorithm = None]
    ELSE IF name = "subFamily" /\ s.in_family
    THEN [s EXCEPT !.in_subfamily = TRUE, !.subfamily_processor = None,
                   !.subfamily_memory = None, !.subfamily_algorithm = None]
    ELSE IF name = "device" /\ s.in_devices THEN StartDevice(s, a)
    ELSE IF name = "processor" /\ s.in_devices THEN FoldProcessor(s, a)
    ELSE IF name = "memory" /\ s.in_devices THEN FoldMemory(s, a)
    ELSE IF name = "algorithm" /\ s.in_devices THEN FoldAlgorithm(s, a)
    ELSE s

\* Event::Empty
OnEmpty(s, name, a) ==
    IF name = "processor" /\ s.in_devices THEN FoldProcessor(s, a)
    ELSE IF name = "memory" /\ s.in_devices THEN FoldMemory(s, a)
    ELSE IF name = "algorithm" /\ s.in_devices THEN FoldAlgorithm(s, a)
    ELSE s

\* </device>: the current device, with the device's own processor if it has one, is emitted.
EndDevice(s) ==
    IF IsSome(s.current_device)
    THEN LET dev0 == Unwrap(s.current_device)
             dev == IF IsSome(s.current_processor)
                    THEN [dev0 EXCEPT !.processor = Unwrap(s.current_processor)]
                    ELSE dev0
         IN  [s EXCEPT !.in_device = FALSE, !.current_device = None,
                       !.current_processor = None, !.devices = Append(s.devices, dev)]
    ELSE [s EXCEPT !.in_device = FALSE, !.current_processor = None]

OnEndKeepsSubFamily(s, name) ==
    IF name = "devices" THEN [s EXCEPT !.in_devices = FALSE]
    ELSE IF name = "family"
    THEN [s EXCEPT !.in_family = FALSE, !.family_processor = None,
                   !.family_memory = None, !.family_algorithm = None]
    ELSE IF name = "subFamily" THEN [s EXCEPT !.in_subfamily = FALSE]
    ELSE IF name = "device" THEN EndDevice(s)
    ELSE s

\* Event::End
OnEnd(s, name) ==
    IF name = "devices" THEN [s EXCEPT !.in_devices = FALSE]
    ELSE IF name = "family"
    THEN [s EXCEPT !.in_family = FALSE, !.family_processor = None,
                   !.family_memory = None, !.family_algorithm = None]
    ELSE IF name = "subFamily"
    THEN [s EXCEPT !.in_subfamily = FALSE, !.subfamily_processor = None,
                   !.subfamily_memory = None, !.subfamily_algorithm = None]
    ELSE IF name = "device" THEN EndDevice(s)
    ELSE s

(***************************************************************************)
(* The documents: well-nested event sequences of                           *)
(* devices -> family -> (subFamily) -> device, with <processor>, <memory>  *)
(* and <algorithm> at any of the three levels, read one event at a time.   *)
(***************************************************************************)

Top == IF stack = <<>> THEN "" ELSE stack[Len(stack)]

Settings == {"processor", "memory", "algorithm"}

AttrsOf(name) ==
    LET
        \* The attribute values the documents use.
        DeviceNames == {"", "DevA", "DevB"}
        ProcessorAttrs ==
            { [Dcore |-> "Cortex-M0", Dfpu |-> "0", Dmpu |-> "0"],
              [Dcore |-> "Cortex-M4", Dfpu |-> "SP_FPU", Dmpu |-> "1"] }
        MemoryAttrs ==
            { [id |-> "IROM1", start |-> 134217728, size |-> 65536, default |-> ""],
              [id |-> "IROM1", start |-> 134217728, size |-> 131072, default |-> ""],
              [id |-> "IROM1", start |-> 134217728, size |-> 65536, default |-> "1"],
              [id |-> "IRAM1", start |-> 536870912, size |-> 20480, default |-> ""],
              [id |-> "IRAM2", start |-> 268435456, size |-> 8192, default |-> ""],
              [id |-> "IRAM2", start |-> 268435456, size |-> 8192, default |-> "1"] }
        AlgorithmAttrs == { [name |-> "Flash64.FLM"], [name |-> "Flash128.FLM"] }
        NoAttrs == [none |-> TRUE]
    IN
    IF name = "device" THEN [Dname : DeviceNames]
    ELSE IF name = "processor" THEN ProcessorAttrs
    ELSE IF name = "memory" THEN MemoryAttrs
    ELSE IF name = "algorithm" THEN AlgorithmAttrs
    ELSE {NoAttrs}

\* Where an element may occur.
MayOpen(name) ==
    IF name = "devices" THEN stack = <<>> /\ n_events = 0
    ELSE IF name = "family" THEN Top = "devices"
    ELSE IF name = "subFamily" THEN Top = "family"
    ELSE IF name = "device" THEN Top \in {"family", "subFamily"}
    ELSE Top \in {"family", "subFamily", "device"}

\* The level a declaration read now belongs to.
Innermost ==
    IF \E i \in 1..Len(stack) : stack[i] = "device" THEN "dev"
    ELSE IF \E i \in 1..Len(stack) : stack[i] = "subFamily" THEN "sub"
    ELSE "fam"

RefLevelInit ==
    [proc |-> None, flash |-> None, ram |-> None, algo |-> None,
     flash_default |-> {}, ram_default |-> {}]

\* Two regions of one kind at one level: which one the level declares is a separate question.
Ambiguous == [start |-> 0 - 1, size |-> 0 - 1]

\* The declarations of the document, level by level.
RefDeclare(r, lvl, name, a) ==
    LET Region(old) == IF IsSome(old) THEN Some(Ambiguous)
                       ELSE Some([start |-> a.start, size |-> a.size])
        \* the regions of the level declared with default="1"
        Default(old) == IF AttrIsTrue(a.default)
                        THEN old \cup {[start |-> a.start, size |-> a.size]}
                        ELSE old
    IN  IF name = "processor" THEN [r EXCEPT ![lvl].proc = Some(a)]
        ELSE IF name = "algorithm" THEN [r EXCEPT ![lvl].algo = Some(a.name)]
        ELSE IF name = "memory" /\ IsFlashId(a.id)
        THEN [r EXCEPT ![lvl].flash = Region(r[lvl].flash),
                       ![lvl].flash_default = Default(r[lvl].flash_default)]
        ELSE IF name = "memory" /\ IsRamId(a.id)
        THEN [r EXCEPT ![lvl].ram = Region(r[lvl].ram),
                       ![lvl].ram_default = Default(r[lvl].ram_default)]
        ELSE r

RefOpen(r, name) ==
    IF name = "family" THEN [r EXCEPT !.fam = RefLevelInit]
    ELSE IF name = "subFamily" THEN [r EXCEPT !.sub = RefLevelInit]
    ELSE IF name = "device" THEN [r EXCEPT !.dev = RefLevelInit, !.devs = r.devs + 1]
    ELSE r

\* closed: the levels that were closed after they had declared something.
RefClose(r, name) ==
    IF name = "family"
    THEN [r EXCEPT !.fam = RefLevelInit,
                   !.closed = IF r.fam # RefLevelInit THEN @ \cup {"fam"} ELSE @]
    ELSE IF name = "subFamily"
    THEN [r EXCEPT !.sub = RefLevelInit,
                   !.closed = IF r.sub # RefLevelInit THEN @ \cup {"sub"} ELSE @]
    ELSE IF name = "device" THEN [r EXCEPT !.dev = RefLevelInit]
    ELSE r

\* Device over subFamily over family, setting by setting.
MostSpecific(r) ==
    [ proc |-> OrElse(r.dev.proc, OrElse(r.sub.proc, r.fam.proc)),
      flash |-> OrElse(r.dev.flash, OrElse(r.sub.flash, r.fam.flash)),
      ram |-> OrElse(r.dev.ram, OrElse(r.sub.ram, r.fam.ram)),
      algo |-> OrElse(r.dev.algo, OrElse(r.sub.algo, r.fam.algo)) ]

\* The rewritten document: a Start event of a rewritable element is held back until the
\* next event shows whether the element is empty.
Flush(s, p) == IF IsSome(p) THEN OnStart(s, Unwrap(p).name, Unwrap(p).attrs) ELSE s

\* PackScanProgress::new
PackScanProgress(phase, current, total) == [phase |-> phase, current |-> current, total |-> total]

\* A progress report is made for every tenth device.
ReportEvery == 10

\* The state when the parsing loop is entered: nothing read, the progress
\* callback called once, with the start of the parsing.
PdscInit ==
    /\ ps = PsInit
    /\ ps_sc = PsInit
    /\ pending = None
    /\ stack = <<>>
    /\ n_events = 0
    /\ n_named = 0
    /\ ref = [fam |-> RefLevelInit, sub |-> RefLevelInit, dev |-> RefLevelInit, devs |-> 0,
             closed |-> {}]
    /\ expect = <<>>
    /\ parse_done = FALSE
    /\ scan_progress = <<PackScanProgress("Parsing", 0, 1)>>

Named(name, a) == IF name = "device" /\ a.Dname # "" THEN 1 ELSE 0

\* Event::Start is read.
ReadStart ==
    \E name \in {"devices", "family", "subFamily", "device"} \cup Settings :
      \E a \in AttrsOf(name) :
        /\ ~parse_done
        /\ MayOpen(name)
        /\ n_events < MaxElements
        /\ name = "device" => ref.devs < MaxDevices
        /\ ps' = OnStart(ps, name, a)
        /\ IF name \in {"device"} \cup Settings
           THEN /\ ps_sc' = Flush(ps_sc, pending)
                /\ pending' = Some([name |-> name, attrs |-> a])
           ELSE /\ ps_sc' = OnStart(Flush(ps_sc, pending), name, a)
                /\ pending' = None
        /\ stack' = Append(stack, name)
        /\ n_events' = n_events + 1
        /\ n_named' = n_named + Named(name, a)
        /\ ref' = IF name \in Settings THEN RefDeclare(ref, Innermost, name, a)
                  ELSE RefOpen(ref, name)
        /\ UNCHANGED <<expect, parse_done, scan_progress, nonPdscVars>>

\* Event::Empty is read.
ReadEmpty ==
    \E name \in {"device"} \cup Settings :
      \E a \in AttrsOf(name) :
        /\ ~parse_done
        /\ MayOpen(name)
        /\ n_events < MaxElements
        /\ name = "device" => ref.devs < MaxDevices
        /\ ps' = OnEmpty(ps, name, a)
        /\ ps_sc' = OnEmpty(Flush(ps_sc, pending), name, a)
        /\ pending' = None
        /\ n_events' = n_events + 1
        /\ n_named' = n_named + Named(name, a)
        /\ ref' = IF name \in Settings THEN RefDeclare(ref, Innermost, name, a)
                  ELSE RefClose(RefOpen(ref, name), name)
        /\ UNCHANGED <<stack, expect, parse_done, scan_progress, nonPdscVars>>

\* Event::End is read.
ReadEnd ==
    /\ ~parse_done
    /\ stack # <<>>
    /\ ps' = OnEnd(ps, Top)
    /\ ps_sc' = IF IsSome(pending)
                THEN OnEmpty(ps_sc, Unwrap(pending).name, Unwrap(pending).attrs)
                ELSE OnEnd(ps_sc, Top)
    /\ pending' = None
    /\ stack' = SubSeq(stack, 1, Len(stack) - 1)
    /\ expect' = IF Len(ps'.devices) > Len(ps.devices)
                 THEN Append(expect, MostSpecific(ref))
                 ELSE expect
    /\ ref' = RefClose(ref, Top)
    /\ scan_progress' =
           IF Len(ps'.devices) > Len(ps.devices) /\ Len(ps.devices) % ReportEvery = 0
           THEN Append(scan_progress, PackScanProgress("ExtractingDevices",
                                          Len(ps.devices), Len(ps.devices) + 1))
           ELSE scan_progress
    /\ UNCHANGED <<n_events, n_named, parse_done, nonPdscVars>>

ReadEofEstimated ==
    /\ ~parse_done
    /\ stack = <<>>
    /\ n_events > 0
    /\ parse_done' = TRUE
    /\ scan_progress' = Append(scan_progress, PackScanProgress("ExtractingDevices",
                                             Len(ps.devices), Len(ps.devices) + 1))
    /\ UNCHANGED <<ps, ps_sc, pending, stack, n_events, n_named, ref, expect, nonPdscVars>>

\* Event::Eof is read: the loop ends, the end of the parsing is reported and
\* the devices are returned.
ReadEof ==
    /\ ~parse_done
    /\ stack = <<>>
    /\ n_events > 0
    /\ parse_done' = TRUE
    /\ scan_progress' = Append(scan_progress, PackScanProgress("ExtractingDevices",
                                             Len(ps.devices), Len(ps.devices)))
    /\ UNCHANGED <<ps, ps_sc, pending, stack, n_events, n_named, ref, expect, nonPdscVars>>

\* C27: the progress callback of parse_devices_from_pdsc is called at least
\* once; its first call reports the Parsing phase, and when the devices are
\* returned its last call reports ExtractingDevices with current and total
\* both the number of devices returned, also when that number is 0.
C27_ProgressFirstAndLast ==
    /\ Len(scan_progress) >= 1
    /\ scan_progress[1].phase = "Parsing"
    /\ parse_done =>
          /\ Len(scan_progress) >= 2
          /\ scan_progress[Len(scan_progress)] =
                 PackScanProgress("ExtractingDevices", Len(ps.devices), Len(ps.devices))

\* One device was returned after three calls of the callback: the start,
\* the first device with the estimated total, the end.
C27_Witness ==
    /\ parse_done
    /\ Len(ps.devices) = 1
    /\ Len(scan_progress) = 3
    /\ scan_progress[2] = PackScanProgress("ExtractingDevices", 0, 1)

\* The settings of an emitted device against the declarations it should carry.
CarriesDeclared(d, e) ==
    /\ IsSome(e.proc) =>
         /\ d.processor.core = Unwrap(e.proc).Dcore
         /\ d.processor.fpu = AttrIsFpu(Unwrap(e.proc).Dfpu)
         /\ d.processor.mpu = AttrIsTrue(Unwrap(e.proc).Dmpu)
    /\ (IsSome(e.flash) /\ Unwrap(e.flash) # Ambiguous) =>
         /\ d.memory.flash_start = Unwrap(e.flash).start
         /\ d.memory.flash_size = Unwrap(e.flash).size
    /\ (IsSome(e.ram) /\ Unwrap(e.ram) # Ambiguous) =>
         /\ d.memory.ram_start = Unwrap(e.ram).start
         /\ d.memory.ram_size = Unwrap(e.ram).size
    /\ d.flash_algorithm = e.algo

\* C1: when the document has been read, the parser has emitted exactly one device per
\* <device> element with a non-empty Dname inside <devices>.
C1_OneDevicePerNamedElement == parse_done => Len(ps.devices) = n_named

\* C2: every emitted device carries, for the processor, the flash region, the RAM region
\* and the algorithm, the value declared at the most specific level that declares it
\* (device over subFamily over family).
C2_MostSpecificDeclarationWins ==
    \A i \in 1..Len(ps.devices) : CarriesDeclared(ps.devices[i], expect[i])

\* C3: the document with every <x ..></x> of device, processor, memory and algorithm
\* written as <x ../> yields the same list of devices as the document itself.
C3_SelfClosingFormEquivalent == parse_done => ps_sc.devices = ps.devices

\* C24: every emitted device has a non-empty name; between the start and
\* the end of a <device> element without a name nothing is emitted and no
\* family, subFamily or device slot changes, and outside a <device> element
\* no device and no device-level processor is pending.
C24_UnnamedDeviceLeavesNoTrace ==
    /\ [](\A i \in 1..Len(ps.devices) : ps.devices[i].name # "")
    /\ [](~ps.in_device => ~IsSome(ps.current_device) /\ ~IsSome(ps.current_processor))
    /\ [][LET Outside(s) == [s EXCEPT !.in_device = FALSE, !.current_processor = None]
              unnamed == \/ ps.in_device /\ ~IsSome(ps.current_device)
                         \/ ~ps.in_device /\ ps'.in_device /\ ~IsSome(ps'.current_device)
          IN  unnamed => Outside(ps') = Outside(ps)]_vars

\* A device was emitted, and a processor was read inside a later <device>
\* element without a name.
C24_Witness ==
    /\ Len(ps.devices) = 1
    /\ ps.in_device
    /\ ~IsSome(ps.current_device)
    /\ IsSome(ps.current_processor)

\* C23: at each level, once a region of a kind was declared there with
\* default="1", the start and size the level holds for that kind are those
\* of a region declared there with default="1", whatever followed it.
C23_DefaultRegionWins ==
    LET Holds(mem, declared) ==
            /\ declared.flash_default # {} =>
                   [start |-> mem.flash_start, size |-> mem.flash_size]
                       \in declared.flash_default
            /\ declared.ram_default # {} =>
                   [start |-> mem.ram_start, size |-> mem.ram_size] \in declared.ram_default
    IN  /\ IsSome(ps.current_device) => Holds(Unwrap(ps.current_device).memory, ref.dev)
        /\ IsSome(ps.subfamily_memory) => Holds(Unwrap(ps.subfamily_memory), ref.sub)
        /\ IsSome(ps.family_memory) => Holds(Unwrap(ps.family_memory), ref.fam)

\* C33: a level's processor, memory and algorithm slots are empty while the
\* level is closed, and a device being read holds no processor, memory or
\* algorithm unless a level that is open declares one: it inherits nothing
\* from a subFamily or a family that was closed before it.
C33_ClosedLevelLeavesNothing ==
    LET Open(level) == \E i \in 1..Len(stack) : stack[i] = level
        Empty(a, b, c) == ~IsSome(a) /\ ~IsSome(b) /\ ~IsSome(c)
        declared == MostSpecific(ref)
    IN  /\ ~Open("subFamily") =>
               Empty(ps.subfamily_processor, ps.subfamily_memory, ps.subfamily_algorithm)
        /\ ~Open("family") =>
               Empty(ps.family_processor, ps.family_memory, ps.family_algorithm)
        /\ IsSome(ps.current_device) =>
               /\ Empty(ref.sub.proc, ref.fam.proc, None) =>
                      Unwrap(ps.current_device).processor = EmptyProcessor
               /\ Empty(declared.flash, declared.ram, None) =>
                      Unwrap(ps.current_device).memory = EmptyMemory
               /\ ~IsSome(declared.algo) =>
                      ~IsSome(Unwrap(ps.current_device).flash_algorithm)

\* A device is being read in a family, after a subFamily of that family
\* that declared something was closed.
C33_Witness ==
    /\ IsSome(ps.current_device)
    /\ "sub" \in ref.closed
    /\ \A i \in 1..Len(stack) : stack[i] # "subFamily"
    /\ ~IsSome(ps.family_algorithm)
    /\ ~IsSome(Unwrap(ps.current_device).flash_algorithm)

(***************************************************************************)
(* Flash programming: flash_firmware and its progress events.              *)
(***************************************************************************)

\* Largest byte counter the flash loader reports in one operation.
MaxBytes == 4

\* Progress events the flash loader reports over one run of the model.
MaxLoaderEvents == 3

CHUNK_SIZE == 4096

\* 0x08000000, the fallback flash start, and 0x08004000, a custom address.
DefaultFlashStart == 134217728

\* A byte string: its first bytes, then one repeated byte up to its length.
Bytes(head, fill, len) == [head |-> head, fill |-> fill, len |-> len]

ByteAt(d, i) == IF i < Len(d.head) THEN d.head[i + 1] ELSE d.fill

\* The firmware files: a two-byte .bin, a .bin of two chunks and eight
\* bytes, an Intel HEX file and an ELF file of the two bytes AA BB at
\* 0x08000000, and a path that does not exist.
FirmwareFiles ==
    { [ext |-> "bin", exists |-> TRUE, data |-> Bytes(<<170, 187>>, 0, 2)],
      [ext |-> "bin", exists |-> TRUE, data |-> Bytes(<<1, 2>>, 0, 2 * CHUNK_SIZE + 8)],
      [ext |-> "hex", exists |-> TRUE,
       data |-> Bytes(<<58, 48, 50, 48, 48, 48, 48, 48, 52, 48, 56, 48, 48, 70, 50, 10,
                        58, 48, 50, 48, 48, 48, 48, 48, 48, 65, 65, 66, 66, 57, 57, 10,
                        58, 48, 48, 48, 48, 48, 48, 48, 49, 70, 70, 10>>, 0, 44)],
      [ext |-> "elf", exists |-> TRUE,
       data |-> Bytes(<<127, 69, 76, 70, 1, 1, 1, 0, 0, 0, 0, 0, 0, 0, 0, 0,
                        2, 0, 40, 0, 1, 0, 0, 0, 0, 0, 0, 8, 52, 0, 0, 0,
                        0, 0, 0, 0, 0, 0, 0, 0, 52, 0, 32, 0, 1, 0, 0, 0,
                        0, 0, 0, 0,
                        1, 0, 0, 0, 84, 0, 0, 0, 0, 0, 0, 8, 0, 0, 0, 8,
                        2, 0, 0, 0, 2, 0, 0, 0, 5, 0, 0, 0, 4, 0, 0, 0,
                        170, 187>>, 0, 86)],
      [ext |-> "bin", exists |-> FALSE, data |-> Bytes(<<>>, 0, 0)] }

\* Format::Hex: the data records of an Intel HEX text, each placed at the
\* upper address of the last type-04 record plus its own offset.
RECURSIVE HexRecords(_, _, _)
HexRecords(t, p, upper) ==
    LET
        \* The byte written as two hexadecimal digits at position q.
        HexByte(text, q) ==
            LET HexDigit(c) == IF c >= 65 THEN c - 55 ELSE c - 48
            IN  16 * HexDigit(text[q]) + HexDigit(text[q + 1])
    IN
    IF p > Len(t) THEN <<>>
    ELSE IF t[p] # 58 THEN HexRecords(t, p + 1, upper)
    ELSE LET n == HexByte(t, p + 1)
             offset == 256 * HexByte(t, p + 3) + HexByte(t, p + 5)
             type == HexByte(t, p + 7)
             payload == [i \in 1..n |-> HexByte(t, p + 7 + 2 * i)]
             next == p + 11 + 2 * n
         IN  IF type = 0
             THEN <<[addr |-> upper * 65536 + offset, data |-> Bytes(payload, 0, n)]>>
                  \o HexRecords(t, next, upper)
             ELSE IF type = 4
             THEN HexRecords(t, next, 256 * payload[1] + payload[2])
             ELSE <<>>

\* The image the flash loader builds from the file, or None when the file
\* is not of the format.
LoadImage(f, format) ==
    LET
        \* Format::Elf: the file bytes of the first program header, at its
        \* physical address (ELF32, little endian).
        ElfSegments(t) ==
            LET Le32(s, off) ==
                    s[off + 1] + 256 * s[off + 2] + 65536 * s[off + 3] + 16777216 * s[off + 4]
                ph == Le32(t, 28)
                p_offset == Le32(t, ph + 4)
                p_paddr == Le32(t, ph + 12)
                p_filesz == Le32(t, ph + 16)
            IN  <<[addr |-> p_paddr,
                   data |-> Bytes([i \in 1..p_filesz |-> t[p_offset + i]], 0, p_filesz)]>>
    IN
    IF format.kind = "Bin"
    THEN Some(<<[addr |-> Unwrap(format.base_address), data |-> f.data]>>)
    ELSE IF format.kind = "Hex"
    THEN IF f.data.len > 0 /\ ByteAt(f.data, 0) = 58
         THEN Some(HexRecords(f.data.head, 1, 0)) ELSE None
    ELSE IF Len(f.data.head) >= 52 /\ SubSeq(f.data.head, 1, 4) = <<127, 69, 76, 70>>
         THEN Some(ElfSegments(f.data.head)) ELSE None

\* The target's flash: erased (every byte reads 0xFF), then the image of the last download
\* (chip erase, the default mode), then one byte changed afterwards.
ErasedChip == [image |-> <<>>, patch |-> None]

FlashByte(c, addr) ==
    LET Covers(seg) == seg.addr <= addr /\ addr < seg.addr + seg.data.len
    IN  IF IsSome(c.patch) /\ Unwrap(c.patch).addr = addr THEN Unwrap(c.patch).byte
        ELSE IF \E i \in 1..Len(c.image) : Covers(c.image[i])
        THEN LET seg == c.image[CHOOSE i \in 1..Len(c.image) : Covers(c.image[i])]
             IN  ByteAt(seg.data, addr - seg.addr)
        ELSE 255

\* The first Nvm region of the session's target, or 0x08000000.
FlashStart(s) == UnwrapOr(s.nvm, DefaultFlashStart)


\* A progress value n/d; the f32 arithmetic is carried out exactly.
Frac(n, d) == [n |-> n, d |-> d]

Leq(a, b) == a.n * b.d <= b.n * a.d

ProgressStateNew ==
    [erase_total |-> 0, erase_current |-> 0, program_total |-> 0, program_current |-> 0]

\* The flash-progress events of one operation, kept as the last event, the
\* highest progress of the events before it and the number of events of
\* phase complete or error.
NoEvents == [last |-> None, high |-> None, terminals |-> 0]

Emit(ev, phase, progress) ==
    [last |-> Some([phase |-> phase, progress |-> progress]),
     high |-> IF ~IsSome(ev.last) THEN None
              ELSE IF IsSome(ev.high) /\ Leq(Unwrap(ev.last).progress, Unwrap(ev.high))
              THEN ev.high
              ELSE Some(Unwrap(ev.last).progress),
     terminals |-> ev.terminals + (IF phase \in {"complete", "error"} THEN 1 ELSE 0)]

FlIdle ==
    [pc |-> "idle", reset_after |-> FALSE, format |-> [kind |-> "Elf", base_address |-> None],
     progress_state |-> ProgressStateNew, result |-> None]

FlReturn(result) == [FlIdle EXCEPT !.pc = "returned", !.result = Some(result)]

VfIdle == [result |-> None, chunks_read |-> 0, fail_addr |-> None, last_phase |-> None]

\* The session lock is free: no flash_firmware call is between its first
\* and its last line.
SessionLockFree == fl.pc \in {"idle", "returned"}

\* flash_firmware is called: it takes the session lock, checks the session
\* and the file, chooses the format and starts the download.
FlashBegin ==
    LET
        CustomFlashAddress == 134234112
        \* FlashOptions as the command receives them.  verify, preverify and
        \* flash_algorithm are handed to the loader unread; skip_erase is false and
        \* erase_mode is ChipErase, the defaults.
        FlashOptionsSet ==
            [use_custom_address : {None, Some(TRUE)},
             custom_flash_address : {None, Some(CustomFlashAddress)},
             reset_after : BOOLEAN]
        \* The format chosen from the file extension.
        FormatOf(ext, options, s) ==
            IF ext \in {"hex", "ihex"} THEN [kind |-> "Hex", base_address |-> None]
            ELSE IF ext = "bin"
            THEN [kind |-> "Bin",
                  base_address |->
                      Some(IF UnwrapOr(options.use_custom_address, FALSE)
                           THEN UnwrapOr(options.custom_flash_address, DefaultFlashStart)
                           ELSE FlashStart(s))]
            ELSE [kind |-> "Elf", base_address |-> None]
    IN
    \E options \in FlashOptionsSet :
        /\ SessionLockFree
        /\ fl' = IF ~IsSome(session) THEN FlReturn("NotConnected")
                 ELSE IF ~file.exists THEN FlReturn("FileError")
                 ELSE [pc |-> "download", reset_after |-> options.reset_after,
                       format |-> FormatOf(file.ext, options, Unwrap(session)),
                       progress_state |-> ProgressStateNew, result |-> None]
        /\ fl_ev' = NoEvents
        /\ UNCHANGED <<session, file, chip, loader_left, vf, nonFlashVars>>

\* The flash loader reports a progress event: the callback updates the
\* ProgressState and emits one flash-progress event.
ProgressCallback ==
    LET
        calculate_progress(st) ==
            IF st.program_total > 0
            THEN Frac(3 * st.program_total + 6 * st.program_current, 10 * st.program_total)
            ELSE IF st.erase_total > 0
            THEN Frac(3 * st.erase_current, 10 * st.erase_total)
            ELSE Frac(0, 1)
        \* The progress callback: the new ProgressState and the phase of the event.
        OnProgressEvent(st, e) ==
            LET
                Max(a, b) == IF a >= b THEN a ELSE b
                Lower(operation) ==
                    CASE operation = "Fill" -> "fill" [] operation = "Erase" -> "erase"
                      [] operation = "Program" -> "program" [] operation = "Verify" -> "verify"
            IN
            CASE e.kind = "FlashLayoutReady" -> [state |-> st, phase |-> "init"]
              [] e.kind = "AddProgressBar" ->
                   [state |-> IF e.operation = "Erase"
                              THEN [st EXCEPT !.erase_total = UnwrapOr(e.total, 0)]
                              ELSE IF e.operation = "Program"
                              THEN [st EXCEPT !.program_total = UnwrapOr(e.total, 0)]
                              ELSE st,
                    phase |-> "init"]
              [] e.kind = "Started" ->
                   [state |-> IF e.operation = "Erase" THEN [st EXCEPT !.erase_current = 0]
                              ELSE IF e.operation = "Program" THEN [st EXCEPT !.program_current = 0]
                              ELSE st,
                    phase |-> Lower(e.operation)]
              [] e.kind = "Progress" ->
                   [state |-> IF e.operation = "Erase"
                              THEN [st EXCEPT !.erase_current = @ + e.size,
                                              !.erase_total = Max(st.erase_current + e.size, @)]
                              ELSE IF e.operation = "Program"
                              THEN [st EXCEPT !.program_current = @ + e.size]
                              ELSE st,
                    phase |-> Lower(e.operation)]
              [] e.kind \in {"Failed", "Finished"} -> [state |-> st, phase |-> Lower(e.operation)]
              [] e.kind = "DiagnosticMessage" -> [state |-> st, phase |-> "info"]
    IN
    LET
        ProgressEvents ==
            LET ProgressOperations == {"Fill", "Erase", "Program", "Verify"}
            IN
            [kind : {"FlashLayoutReady", "DiagnosticMessage"}, operation : {""}, total : {None}, size : {0}]
            \cup [kind : {"AddProgressBar"}, operation : ProgressOperations,
                  total : {None, Some(2)}, size : {0}]
            \cup [kind : {"Started", "Failed", "Finished"}, operation : ProgressOperations,
                  total : {None}, size : {0}]
            \cup [kind : {"Progress"}, operation : ProgressOperations, total : {None}, size : {1, 2}]
    IN
    \E e \in ProgressEvents :
        /\ fl.pc = "download"
        /\ IsSome(LoadImage(file, fl.format))
        /\ loader_left > 0
        /\ LET r == OnProgressEvent(fl.progress_state, e)
           IN  /\ r.state.erase_current <= MaxBytes
               /\ r.state.program_current <= MaxBytes
               /\ fl' = [fl EXCEPT !.progress_state = r.state]
               /\ fl_ev' = Emit(fl_ev, r.phase, calculate_progress(r.state))
        /\ loader_left' = loader_left - 1
        /\ UNCHANGED <<session, file, chip, vf, nonFlashVars>>

\* download_file_with_options returns an error: the file is not of the
\* format, or the probe failed with the flash untouched or erased.
DownloadFails ==
    /\ fl.pc = "download"
    /\ fl' = [fl EXCEPT !.pc = "returned", !.result = Some("FlashError")]
    /\ \/ chip' = chip
       \/ IsSome(LoadImage(file, fl.format)) /\ chip' = ErasedChip
    /\ vf' = IF chip' = chip THEN vf ELSE VfIdle
    /\ UNCHANGED <<session, file, fl_ev, loader_left, nonFlashVars>>

\* download_file_with_options returns Ok: the image is in flash and the
\* finishing event is emitted.
DownloadSucceeds ==
    /\ fl.pc = "download"
    /\ IsSome(LoadImage(file, fl.format))
    /\ chip' = [image |-> Unwrap(LoadImage(file, fl.format)), patch |-> None]
    /\ fl_ev' = Emit(fl_ev, "finishing", Frac(95, 100))
    /\ fl' = [fl EXCEPT !.pc = IF fl.reset_after THEN "reset" ELSE "complete"]
    /\ vf' = VfIdle
    /\ UNCHANGED <<session, file, loader_left, nonFlashVars>>

\* reset_after: the reset event is emitted, then the core is taken and
\* reset; either may fail.
FlashReset ==
    \E ok \in BOOLEAN :
        /\ fl.pc = "reset"
        /\ fl_ev' = Emit(fl_ev, "reset", Frac(98, 100))
        /\ fl' = IF ok THEN [fl EXCEPT !.pc = "complete"]
                 ELSE [fl EXCEPT !.pc = "returned", !.result = Some("FlashError")]
        /\ UNCHANGED <<session, file, chip, loader_left, vf, nonFlashVars>>

\* The complete event is emitted and flash_firmware returns Ok.
FlashComplete ==
    /\ fl.pc = "complete"
    /\ fl_ev' = Emit(fl_ev, "complete", Frac(1, 1))
    /\ fl' = [fl EXCEPT !.pc = "returned", !.result = Some("Ok")]
    /\ UNCHANGED <<session, file, chip, loader_left, vf, nonFlashVars>>

(***************************************************************************)
(* Verification: verify_firmware.                                          *)
(***************************************************************************)

\* The chunk loop from offset verified on: whether every chunk compared
\* equal, how many chunks were read and the address reported on a mismatch.
RECURSIVE VerifyChunks(_, _, _, _)
VerifyChunks(c, file_data, flash_start, verified) ==
    IF verified >= file_data.len
    THEN [equal |-> TRUE, chunks_read |-> 0, fail_addr |-> None]
    ELSE LET rest == file_data.len - verified
             chunk_len == IF CHUNK_SIZE <= rest THEN CHUNK_SIZE ELSE rest
             current_addr == flash_start + verified
         IN  IF \E i \in 0..(chunk_len - 1) :
                    FlashByte(c, current_addr + i) # ByteAt(file_data, verified + i)
             THEN [equal |-> FALSE, chunks_read |-> 1, fail_addr |-> Some(current_addr)]
             ELSE [VerifyChunks(c, file_data, flash_start, verified + chunk_len)
                       EXCEPT !.chunks_read = @ + 1]

\* verify_firmware runs from its first to its last line under the session
\* lock.  probe is what the probe does: it works, session.core(0) fails, or
\* the first core.read fails.
VerifyFirmware ==
    \E probe \in {"ok", "core", "read"} :
        /\ SessionLockFree
        /\ vf' = IF ~IsSome(session) THEN [VfIdle EXCEPT !.result = Some("NotConnected")]
                 ELSE IF ~file.exists THEN [VfIdle EXCEPT !.result = Some("FileError")]
                 ELSE IF probe = "core" \/ (probe = "read" /\ file.data.len > 0)
                 THEN [VfIdle EXCEPT !.result = Some("FlashError"),
                                     !.last_phase = Some("verify")]
                 ELSE LET flash_start == FlashStart(Unwrap(session))
                          r == VerifyChunks(chip, file.data, flash_start, 0)
                      IN  [result |-> Some(IF r.equal THEN "true" ELSE "false"),
                           chunks_read |-> r.chunks_read,
                           fail_addr |-> r.fail_addr,
                           last_phase |-> Some(IF r.equal THEN "complete" ELSE "error")]
        /\ UNCHANGED <<session, file, chip, fl, fl_ev, loader_left, nonFlashVars>>

\* One byte of the flash changes after programming: the byte the verifier
\* compares with offset k of the file, k around the chunk boundaries or at
\* the end of the larger file.
CorruptFlashByte ==
    \E k \in {0, 1, CHUNK_SIZE - 1, CHUNK_SIZE, CHUNK_SIZE + 1, 2 * CHUNK_SIZE + 7} :
        /\ SessionLockFree
        /\ IsSome(session)
        /\ fl.result = Some("Ok")
        /\ ~IsSome(chip.patch)
        /\ k < file.data.len
        /\ LET addr == FlashStart(Unwrap(session)) + k
           IN  chip' = [chip EXCEPT !.patch =
                           Some([addr |-> addr, byte |-> (FlashByte(chip, addr) + 1) % 256])]
        /\ vf' = VfIdle
        /\ UNCHANGED <<session, file, fl, fl_ev, loader_left, nonFlashVars>>

\* C4: during one flash_firmware operation the progress of every
\* flash-progress event lies in [0, 1] and is not below the progress of
\* any event emitted before it.
C4_ProgressMonotoneInUnitInterval ==
    IsSome(fl_ev.last) =>
        LET p == Unwrap(fl_ev.last).progress
        IN  /\ Leq(Frac(0, 1), p)
            /\ Leq(p, Frac(1, 1))
            /\ IsSome(fl_ev.high) => Leq(Unwrap(fl_ev.high), p)

\* C5: a flash_firmware operation that emitted an event and has returned
\* emitted exactly one event of phase complete or error, as its last
\* event: complete when it returned Ok, error when it returned an error.
C5_OneTerminalEvent ==
    (fl.pc = "returned" /\ IsSome(fl_ev.last)) =>
        /\ fl_ev.terminals = 1
        /\ Unwrap(fl_ev.last).phase =
               (IF fl.result = Some("Ok") THEN "complete" ELSE "error")

\* C6: once flash_firmware has returned Ok, verify_firmware on the same
\* file and the unchanged flash returns true, for every format and base
\* address.
C6_VerifyAfterFlashIsTrue ==
    (fl.result = Some("Ok") /\ ~IsSome(chip.patch)
        /\ vf.result \in {Some("true"), Some("false")}) =>
        vf.result = Some("true")

\* C7: when the flash equals the file except for the byte at offset k,
\* verify_firmware returns false, has read no chunk after the one that
\* holds k, and reports the address flash_start + k.
C7_MismatchReportedAtByte ==
    (/\ IsSome(vf.result)
     /\ Unwrap(vf.result) \in {"true", "false"}
     /\ IsSome(chip.patch)
     /\ VerifyChunks([chip EXCEPT !.patch = None], file.data,
                     FlashStart(Unwrap(session)), 0).equal) =>
        LET k == Unwrap(chip.patch).addr - FlashStart(Unwrap(session))
        IN  /\ vf.result = Some("false")
            /\ vf.chunks_read = (k \div CHUNK_SIZE) + 1
            /\ vf.fail_addr = Some(FlashStart(Unwrap(session)) + k)

\* C29: no event is emitted while a slot mutex is held: flash_firmware
\* emits a flash-progress event only when it does not hold the lock of the
\* Main slot.
C29_NoEventUnderSlotLock == [][fl_ev' # fl_ev => SessionLockFree]_vars

(***************************************************************************)
(* The session slots: connect_target, connect_rtt, disconnect and          *)
(* disconnect_rtt.                                                         *)
(***************************************************************************)

\* Sessions a probe attach creates over one run of the model.
MaxSessions == 2

\* The session slot and the connection info of a slot.
SlotSession(slot) == IF slot = "main" THEN session ELSE rtt_session

\* The slot's session becomes s; the other slot keeps its session.
StoreSession(slot, s) ==
    IF slot = "main" THEN session' = s /\ rtt_session' = rtt_session
    ELSE rtt_session' = s /\ session' = session

StoreInfo(slot, info) ==
    IF slot = "main"
    THEN connection_info' = info /\ rtt_connection_info' = rtt_connection_info
    ELSE rtt_connection_info' = info /\ connection_info' = connection_info

\* The session leaving a slot: which one, and whether core.run() was
\* commanded on it before the drop.  An empty slot releases nothing.
Release(slot, ran) ==
    IF IsSome(SlotSession(slot))
    THEN Some([slot |-> slot, ran |-> ran])
    ELSE released

ConnIdle == [pc |-> "idle", session |-> None]

ConnectBeginKeepsSession(slot) ==
    /\ conn[slot].pc = "idle"
    /\ slot = "main" => SessionLockFree
    /\ next_id <= MaxSessions
    /\ conn' = [conn EXCEPT ![slot].pc = "attach"]
    /\ UNCHANGED <<session, rtt_session, released, connection_info, rtt_connection_info,
                   disc, next_id>>
    /\ UNCHANGED <<ioVars, packVars, pdscVars, file, chip, fl, fl_ev, loader_left, vf, rttVars>>

\* connect_target / connect_rtt, first lock scope: the slot is set to None.
ConnectBegin(slot) ==
    /\ conn[slot].pc = "idle"
    /\ slot = "main" => SessionLockFree
    /\ next_id <= MaxSessions
    /\ released' = Release(slot, FALSE)
    /\ StoreSession(slot, None)
    /\ conn' = [conn EXCEPT ![slot].pc = "attach"]
    /\ UNCHANGED <<connection_info, rtt_connection_info, disc, next_id>>
    /\ UNCHANGED <<ioVars, packVars, pdscVars, file, chip, fl, fl_ev, loader_left, vf, rttVars>>

\* The probe is not found or not opened, or the protocol, the speed or the
\* attach fails: the command returns the error.
ConnectFails(slot) ==
    /\ conn[slot].pc = "attach"
    /\ conn' = [conn EXCEPT ![slot] = ConnIdle]
    /\ UNCHANGED <<session, rtt_session, connection_info, rtt_connection_info,
                   disc, released, next_id>>
    /\ UNCHANGED <<ioVars, packVars, pdscVars, file, chip, fl, fl_ev, loader_left, vf, rttVars>>

\* The attach succeeds and the connection info of the new session is stored.
ConnectStoreInfo(slot) ==
    /\ conn[slot].pc = "attach"
    /\ LET s == [id |-> next_id, nvm |-> Some(DefaultFlashStart)]
       IN  /\ conn' = [conn EXCEPT ![slot] = [pc |-> "store", session |-> Some(s)]]
           /\ StoreInfo(slot, Some([id |-> s.id]))
    /\ next_id' = next_id + 1
    /\ UNCHANGED <<session, rtt_session, disc, released>>
    /\ UNCHANGED <<ioVars, packVars, pdscVars, file, chip, fl, fl_ev, loader_left, vf, rttVars>>

\* The new session is stored in the slot and the command returns.
ConnectStoreSession(slot) ==
    /\ conn[slot].pc = "store"
    /\ slot = "main" => SessionLockFree
    /\ released' = Release(slot, FALSE)
    /\ StoreSession(slot, conn[slot].session)
    /\ conn' = [conn EXCEPT ![slot] = ConnIdle]
    /\ UNCHANGED <<connection_info, rtt_connection_info, disc, next_id>>
    /\ UNCHANGED <<ioVars, packVars, pdscVars, file, chip, fl, fl_ev, loader_left, vf, rttVars>>

\* disconnect_rtt, first statement: the polling task is told to stop.
DisconnectRttStop ==
    /\ disc["rtt"] = "idle"
    /\ disc' = [disc EXCEPT !["rtt"] = "release"]
    /\ rtt_state' = [rtt_state EXCEPT !.running = FALSE]
    /\ UNCHANGED <<session, rtt_session, connection_info, rtt_connection_info,
                   conn, released, next_id>>
    /\ UNCHANGED <<ioVars, packVars, pdscVars, file, chip, fl, fl_ev, loader_left, vf>>
    /\ UNCHANGED <<start, task, rtt_status, rtt_emitted, rtt_produced, rtt_unread, rtt_options>>

DisconnectReleaseEverySlot(slot) ==
    \E core_ok \in BOOLEAN :
        /\ disc[slot] = (IF slot = "main" THEN "idle" ELSE "release")
        /\ slot = "main" => SessionLockFree
        /\ released' = Release(slot, core_ok)
        /\ session' = None
        /\ rtt_session' = None
        /\ disc' = [disc EXCEPT ![slot] = "clear"]
        /\ UNCHANGED <<connection_info, rtt_connection_info, conn, next_id>>
        /\ UNCHANGED <<ioVars, packVars, pdscVars, file, chip, fl, fl_ev, loader_left, vf, rttVars>>

\* disconnect / disconnect_rtt, the session lock scope: the core is run
\* when session.core(0) gives it, then the slot is set to None.
DisconnectRelease(slot) ==
    \E core_ok \in BOOLEAN :
        /\ disc[slot] = (IF slot = "main" THEN "idle" ELSE "release")
        /\ slot = "main" => SessionLockFree
        /\ released' = Release(slot, core_ok)
        /\ StoreSession(slot, None)
        /\ disc' = [disc EXCEPT ![slot] = "clear"]
        /\ UNCHANGED <<connection_info, rtt_connection_info, conn, next_id>>
        /\ UNCHANGED <<ioVars, packVars, pdscVars, file, chip, fl, fl_ev, loader_left, vf, rttVars>>

\* disconnect / disconnect_rtt, last statements: the connection info is cleared.
DisconnectClearInfo(slot) ==
    /\ disc[slot] = "clear"
    /\ StoreInfo(slot, None)
    /\ disc' = [disc EXCEPT ![slot] = "idle"]
    /\ UNCHANGED <<session, rtt_session, conn, released, next_id>>
    /\ UNCHANGED <<ioVars, packVars, pdscVars, file, chip, fl, fl_ev, loader_left, vf, rttVars>>

\* get_connection_status / get_rtt_connection_status: the slot is locked and
\* asked whether it holds a session, then the info is locked and cloned.
GetConnectionStatus(slot) ==
    [connected |-> IsSome(SlotSession(slot)),
     info |-> IF slot = "main" THEN connection_info ELSE rtt_connection_info]

\* C37: for each slot, while no connect and no disconnect of the slot is in
\* progress, the connection info is present exactly when the slot holds a
\* session: the status reported then never has connected = false with an
\* info, nor connected = true without one.
C37_InfoExactlyWithSession ==
    \A slot \in {"main", "rtt"} :
        (conn[slot].pc = "idle" /\ disc[slot] = "idle") =>
            (GetConnectionStatus(slot).connected <=> IsSome(GetConnectionStatus(slot).info))

\* C28 as stated: a session leaves its slot only by a detach or when a
\* successor is installed in its place, so a connect_target or connect_rtt
\* call that fails leaves the session of before the call in the slot.
C28_SessionOutlivesFailedConnect ==
    [][\A slot \in {"main", "rtt"} :
          (IsSome(SlotSession(slot)) /\ SlotSession(slot)' # SlotSession(slot)) =>
              \/ disc[slot] # "clear" /\ disc'[slot] = "clear"
              \/ IsSome(SlotSession(slot)')]_vars

\* C28 amended: a session leaves its slot only by a detach or by a
\* connect_target or connect_rtt call on the slot, which releases it before
\* the probe of the successor is looked up; when the call fails it puts no
\* session in the slot, so the session of before the call is gone.
C28_SessionReleasedBeforeAttach ==
    [][\A slot \in {"main", "rtt"} :
          /\ (IsSome(SlotSession(slot)) /\ SlotSession(slot)' # SlotSession(slot)) =>
                 \/ disc[slot] # "clear" /\ disc'[slot] = "clear"
                 \/ conn[slot].pc = "idle" /\ conn'[slot].pc = "attach"
          /\ (conn[slot].pc = "idle" /\ conn'[slot].pc = "attach") =>
                 SlotSession(slot)' = None
          /\ (conn[slot].pc = "attach" /\ conn'[slot].pc = "idle") =>
                 SlotSession(slot)' = None]_vars

\* connect_target failed on the Main slot that held session 1: the slot is
\* empty, the connection info still names session 1.
C28_Witness ==
    /\ session = None
    /\ conn["main"].pc = "idle"
    /\ disc["main"] = "idle"
    /\ released = Some([slot |-> "main", ran |-> FALSE])
    /\ connection_info = Some([id |-> 1])

\* C8: whenever a session leaves a slot -- by disconnect, disconnect_rtt,
\* or by connect_target / connect_rtt replacing it -- its core was
\* commanded to run before the session was dropped.
C8_ReleasedCoreWasRun == IsSome(released) => Unwrap(released).ran

\* read_memory and write_memory: the Main session is locked, its core is
\* taken and read or written.  read_registers and read_flash do the same.
MemoryCommand ==
    \E command \in {"read_memory", "write_memory"} :
        /\ SessionLockFree
        /\ mem_result' = command
        /\ UNCHANGED <<nonIoVars, probes, probe_infos, serial, lockVars>>

\* erase_chip with EraseMode::ChipErase: the Main session is locked and
\* erase_all is run on it.
EraseChip ==
    \E erased \in BOOLEAN :
        /\ SessionLockFree
        /\ mem_result' = "erase_chip"
        /\ chip' = IF IsSome(session) /\ erased THEN ErasedChip ELSE chip
        /\ UNCHANGED <<probes, probe_infos, serial, lockVars>>
        /\ UNCHANGED <<packVars, pdscVars, slotVars, rttVars, session, file, fl, fl_ev,
                       loader_left, vf>>

\* write_rtt: the running flag is checked, the RTT session is locked and
\* the data is written to a down channel of the Rtt attached on its core.
WriteRtt ==
    /\ mem_result' = "write_rtt"
    /\ UNCHANGED <<nonIoVars, probes, probe_infos, serial, lockVars>>

(***************************************************************************)
(* RTT polling: start_rtt, stop_rtt and rtt_polling_task.                  *)
(***************************************************************************)

\* Events the target writes over one run of the model: past the size
\* threshold of the batch when one polling task is followed, a few when
\* the RTT session is replaced under it.
MaxEvents == 11

MaxEventsReplace == 2

MAX_CONSECUTIVE_ERRORS == 50

BATCH_SIZE_THRESHOLD == 10

BATCH_TIMEOUT_MS == 50

RttStateDefault == [running |-> FALSE, control_block_address |-> None]

NoData == [kind |-> "NoData", events |-> <<>>, error |-> None]

\* options.address.unwrap_or(0x20000000), options.range_start.unwrap_or(0x20000000)
DefaultRttAddress == 536870912

\* Rtt::attach_region on a target whose control block lies at the start of
\* the RAM: the address at which the scan of the region finds it, if it does.
RttAttachRegion(region) ==
    LET block == DefaultRttAddress
    IN  IF \/ region.kind = "Ram"
           \/ region.kind = "Exact" /\ region.addr = block
           \/ region.kind = "Range" /\ region.start <= block /\ block < region.start + region.size
        THEN Some(block)
        ELSE None

\* since_emit is last_emit.elapsed() in ms, counted up to BATCH_TIMEOUT_MS;
\* prev is the position of the polling task spawned before this one.
TaskNone ==
    [pc |-> "none", control_block_addr |-> None, halt_on_read |-> FALSE,
     consecutive_errors |-> 0, batch_events |-> <<>>, since_emit |-> 0,
     poll_result |-> NoData, prev |-> "none"]

StartIdle == [pc |-> "idle", scan_mode |-> "auto", address |-> None, halt_on_read |-> FALSE]

\* start_rtt, the running check.
StartRttCheck ==
    \E halt_on_read \in {TRUE} :
        /\ start.pc = "idle"
        /\ start' = IF rtt_state.running THEN StartIdle
                    ELSE [pc |-> "attach", scan_mode |-> rtt_options.scan_mode,
                          address |-> rtt_options.address, halt_on_read |-> halt_on_read]
        /\ UNCHANGED <<ioVars, packVars, pdscVars, flashVars, slotVars>>
        /\ UNCHANGED <<rtt_state, task, rtt_status, rtt_emitted, rtt_produced, rtt_unread, rtt_options>>

\* start_rtt, the attach under the RTT session lock, then the saved
\* configuration and the spawn of the polling task.  One polling task is
\* modelled: the spawn waits for the previous task to have ended.
StartRttAttach ==
    \E attached \in BOOLEAN :
        /\ start.pc = "attach"
        /\ IF /\ IsSome(rtt_session)
              /\ attached
              /\ IsSome(RttAttachRegion(
                     IF start.scan_mode = "exact"
                     THEN [kind |-> "Exact", addr |-> UnwrapOr(start.address, DefaultRttAddress)]
                     ELSE IF start.scan_mode = "range"
                     THEN [kind |-> "Range", start |-> DefaultRttAddress, size |-> 65536]
                     ELSE [kind |-> "Ram"]))
           THEN /\ task.pc \in {"none", "done"}
                /\ rtt_state' = [running |-> TRUE, control_block_address |-> start.address]
                /\ task' = [TaskNone EXCEPT !.pc = "start", !.halt_on_read = start.halt_on_read]
                /\ rtt_emitted' = <<>>
                /\ rtt_produced' = <<>>
                /\ rtt_status' = <<>>
           ELSE UNCHANGED <<rtt_state, task, rtt_emitted, rtt_produced, rtt_status>>
        /\ start' = StartIdle
        /\ UNCHANGED <<ioVars, packVars, pdscVars, flashVars, slotVars, rtt_unread, rtt_options>>

\* stop_rtt while RTT is running.
StopRtt ==
    /\ rtt_state.running
    /\ rtt_state' = [rtt_state EXCEPT !.running = FALSE]
    /\ UNCHANGED <<ioVars, packVars, pdscVars, flashVars, slotVars>>
    /\ UNCHANGED <<start, task, rtt_status, rtt_emitted, rtt_produced, rtt_unread, rtt_options>>

\* rtt_polling_task before its loop: the control block address is read and
\* the initial rtt-status event emitted.
TaskStart ==
    /\ task.pc = "start"
    /\ task' = [task EXCEPT !.pc = "tick",
                            !.control_block_addr = rtt_state.control_block_address]
    /\ rtt_status' = Append(rtt_status, [running |-> TRUE, error |-> None])
    /\ UNCHANGED <<ioVars, packVars, pdscVars, flashVars, slotVars>>
    /\ UNCHANGED <<rtt_state, start, rtt_emitted, rtt_produced, rtt_unread, rtt_options>>

\* Vec::extend swapped round: the new events go in front of the batch.
ExtendFront(batch_events, events) == events \o batch_events

\* batch_events.extend(events)
Extend(batch_events, events) == batch_events \o events

\* One loop iteration up to the poll: the tick, the running check and
\* poll_rtt_once.  session.core(0) fails on a probe that fails from the
\* task's first poll on; once a read has returned data the Error result
\* comes from a disconnected slot.
TaskPoll ==
    LET
        \* poll_rtt_once.  probe is what the probe does under the session lock:
        \* the lock is not obtained in time, session.core(0) fails, the halt
        \* fails, or the up channels in channels had bytes.
        PollRttOnce(t, s, probe, channels, n) ==
            LET
                \* read_rtt_data: one event per up channel that had bytes, tagged with the
                \* session the bytes came from and numbered in the order they were read.
                ReadEvents(from, up_channels, read) ==
                    [i \in 1..Len(up_channels) |->
                        [channel |-> up_channels[i], data |-> read + i, session |-> from.id]]
            IN
            IF probe = "locked" THEN [t EXCEPT !.poll_result = NoData]
            ELSE IF ~IsSome(s)
            THEN [t EXCEPT !.poll_result = [kind |-> "Error", events |-> <<>>,
                                            error |-> Some("disconnected")]]
            ELSE IF probe = "core"
            THEN [t EXCEPT !.consecutive_errors = @ + 1,
                           !.poll_result =
                               IF t.consecutive_errors + 1 >= MAX_CONSECUTIVE_ERRORS
                               THEN [kind |-> "Error", events |-> <<>>, error |-> Some("core")]
                               ELSE NoData]
            ELSE IF probe = "halt" /\ t.halt_on_read
            THEN [t EXCEPT !.consecutive_errors = 0, !.poll_result = NoData]
            ELSE [t EXCEPT !.consecutive_errors = 0,
                           !.poll_result =
                               IF \/ channels = <<>>
                                  \/ ~IsSome(RttAttachRegion(
                                         IF IsSome(t.control_block_addr)
                                         THEN [kind |-> "Exact", addr |-> Unwrap(t.control_block_addr)]
                                         ELSE [kind |-> "Ram"]))
                               THEN NoData
                               ELSE [kind |-> "Data", events |-> ReadEvents(Unwrap(s), channels, n),
                                     error |-> None]]
    IN
    \E probe \in {"locked", "core", "halt", "read"}, channels \in {<<>>, <<0>>, <<0, 1, 2, 3, 4>>} :
        /\ task.pc = "tick"
        /\ probe = "core" => rtt_produced = <<>>
        /\ IF ~rtt_state.running
           THEN /\ task' = [task EXCEPT !.pc = "drain"]
                /\ UNCHANGED <<rtt_produced, rtt_unread>>
           ELSE LET t == PollRttOnce(task, rtt_session, probe, channels, Len(rtt_produced))
                IN  /\ Len(t.poll_result.events) <= rtt_unread
                    /\ task' = [t EXCEPT !.pc = "handle"]
                    /\ rtt_produced' = rtt_produced \o t.poll_result.events
                    /\ rtt_unread' = rtt_unread - Len(t.poll_result.events)
        /\ UNCHANGED <<ioVars, packVars, pdscVars, flashVars, slotVars>>
        /\ UNCHANGED <<rtt_state, start, rtt_status, rtt_emitted, rtt_options>>

TaskHandleSizeOnly ==
    \E elapsed \in {25, 50} :
        /\ task.pc = "handle"
        /\ LET r == task.poll_result
               batch == IF r.kind = "Data" THEN Extend(task.batch_events, r.events)
                        ELSE task.batch_events
               at_size == r.kind = "Data" /\ Len(batch) >= BATCH_SIZE_THRESHOLD
               since == IF at_size THEN 0
                        ELSE IF task.since_emit + elapsed >= BATCH_TIMEOUT_MS
                        THEN BATCH_TIMEOUT_MS
                        ELSE task.since_emit + elapsed
               timed_out == FALSE
               flush == r.kind # "Error" /\ (at_size \/ timed_out)
           IN  /\ rtt_emitted' = IF flush THEN rtt_emitted \o batch ELSE rtt_emitted
               /\ task' = [task EXCEPT !.pc = IF r.kind = "Error" THEN "drain" ELSE "tick",
                                       !.batch_events = IF flush THEN <<>> ELSE batch,
                                       !.since_emit = IF flush THEN 0 ELSE since,
                                       !.poll_result = IF r.kind = "Error" THEN r ELSE NoData]
               /\ rtt_state' = IF r.kind = "Error" THEN [rtt_state EXCEPT !.running = FALSE]
                                ELSE rtt_state
               /\ rtt_status' = IF r.kind = "Error"
                                 THEN Append(rtt_status, [running |-> FALSE, error |-> r.error])
                                 ELSE rtt_status
        /\ UNCHANGED <<ioVars, packVars, pdscVars, flashVars, slotVars, start, rtt_produced, rtt_unread, rtt_options>>

\* The rest of the iteration, which ends elapsed ms after the one before:
\* the match on the poll result, the flush at the size threshold and the
\* flush when BATCH_TIMEOUT_MS have passed since the last one.
TaskHandle ==
    \E elapsed \in {25, 50} :
        /\ task.pc = "handle"
        /\ LET r == task.poll_result
               batch == IF r.kind = "Data" THEN Extend(task.batch_events, r.events)
                        ELSE task.batch_events
               at_size == r.kind = "Data" /\ Len(batch) >= BATCH_SIZE_THRESHOLD
               since == IF at_size THEN 0
                        ELSE IF task.since_emit + elapsed >= BATCH_TIMEOUT_MS
                        THEN BATCH_TIMEOUT_MS
                        ELSE task.since_emit + elapsed
               timed_out == batch # <<>> /\ since >= BATCH_TIMEOUT_MS
               flush == r.kind # "Error" /\ (at_size \/ timed_out)
           IN  /\ rtt_emitted' = IF flush THEN rtt_emitted \o batch ELSE rtt_emitted
               /\ task' = [task EXCEPT !.pc = IF r.kind = "Error" THEN "drain" ELSE "tick",
                                       !.batch_events = IF flush THEN <<>> ELSE batch,
                                       !.since_emit = IF flush THEN 0 ELSE since,
                                       !.poll_result = IF r.kind = "Error" THEN r ELSE NoData]
               /\ rtt_state' = IF r.kind = "Error" THEN [rtt_state EXCEPT !.running = FALSE]
                                ELSE rtt_state
               /\ rtt_status' = IF r.kind = "Error"
                                 THEN Append(rtt_status, [running |-> FALSE, error |-> r.error])
                                 ELSE rtt_status
        /\ UNCHANGED <<ioVars, packVars, pdscVars, flashVars, slotVars, start, rtt_produced, rtt_unread, rtt_options>>

\* start_rtt, the attach, while the polling task of an earlier start_rtt
\* has not ended: nothing in start_rtt waits for it.  The new task is
\* spawned, and of the previous one its position is kept: "tick" before its
\* next check of the running flag, "finish" once it has left its loop.
StartRttRespawn ==
    /\ start.pc = "attach"
    /\ start.scan_mode = "exact"
    /\ IsSome(rtt_session)
    /\ IsSome(RttAttachRegion([kind |-> "Exact",
                               addr |-> UnwrapOr(start.address, DefaultRttAddress)]))
    /\ task.pc \in {"tick", "drain"}
    /\ task.prev \in {"none", "done"}
    /\ rtt_state' = [running |-> TRUE, control_block_address |-> start.address]
    /\ task' = [TaskNone EXCEPT !.pc = "start", !.halt_on_read = start.halt_on_read,
                                !.prev = IF task.pc = "tick" THEN "tick" ELSE "finish"]
    /\ rtt_emitted' = <<>>
    /\ rtt_produced' = <<>>
    /\ rtt_status' = <<>>
    /\ start' = StartIdle
    /\ UNCHANGED <<ioVars, packVars, pdscVars, flashVars, slotVars, rtt_unread, rtt_options>>

\* A step of the previous polling task.  At its tick it leaves the loop when
\* the running flag is off and polls on, alongside the new task, when the
\* flag is on; after the loop it calls rtt_state.reset().
PreviousTaskStep ==
    /\ task.prev \in {"tick", "alongside", "finish"}
    /\ IF task.prev = "finish"
       THEN /\ rtt_state' = RttStateDefault
            /\ task' = [task EXCEPT !.prev = "done"]
       ELSE /\ task' = [task EXCEPT !.prev = IF rtt_state.running THEN "alongside"
                                             ELSE "finish"]
            /\ UNCHANGED rtt_state
    /\ UNCHANGED <<ioVars, packVars, pdscVars, flashVars, slotVars>>
    /\ UNCHANGED <<start, rtt_status, rtt_emitted, rtt_produced, rtt_unread, rtt_options>>

\* C38: at most one polling task is alive: after stop_rtt and a new
\* start_rtt the previous task does not poll alongside the new one, and its
\* shutdown (rtt_state.reset) leaves the running flag of the new task as
\* it is.
C38_OnePollingTask ==
    [][/\ task'.prev # "alongside"
       /\ (task.prev = "finish" /\ task'.prev = "done"
              /\ task.pc \in {"start", "tick", "handle"}) =>
              rtt_state'.running = rtt_state.running]_vars

\* C32: at the end of every tick of the polling loop fewer than
\* BATCH_SIZE_THRESHOLD events are pending, and none is pending when
\* BATCH_TIMEOUT_MS or more have passed since the last flush.
C32_BatchFlushedAtSizeOrTimeout ==
    task.pc = "tick" =>
        /\ Len(task.batch_events) < BATCH_SIZE_THRESHOLD
        /\ task.batch_events # <<>> => task.since_emit < BATCH_TIMEOUT_MS

\* The loop goes on after a flush of fewer events than the size threshold:
\* they were flushed because of the time passed.
C32_Witness ==
    /\ task.pc = "tick"
    /\ rtt_state.running
    /\ task.since_emit = 0
    /\ Len(rtt_emitted) \in 1..(BATCH_SIZE_THRESHOLD - 1)
    /\ task.batch_events = <<>>

\* After the loop: the remaining events are emitted, the RttState is reset
\* and the final rtt-status event emitted.
TaskFinish ==
    /\ task.pc = "drain"
    /\ rtt_emitted' = rtt_emitted \o task.batch_events
    /\ task' = [task EXCEPT !.pc = "done", !.batch_events = <<>>]
    /\ rtt_state' = RttStateDefault
    /\ rtt_status' = Append(rtt_status, [running |-> FALSE, error |-> None])
    /\ UNCHANGED <<ioVars, packVars, pdscVars, flashVars, slotVars, start, rtt_produced, rtt_unread, rtt_options>>

\* C31: after a successful start_rtt the RTT state holds the address at
\* which the control block was found, and the polling task of that run
\* attaches at that address.
C31_CachedAddressIsWhereFound ==
    /\ rtt_state.running =>
          rtt_state.control_block_address = RttAttachRegion([kind |-> "Ram"])
    /\ task.pc \in {"tick", "handle"} =>
          task.control_block_addr = RttAttachRegion([kind |-> "Ram"])

\* C9: once connect_rtt has stored a new session in the RTT slot, the
\* polling task emits no rtt-data event whose bytes were read from an
\* earlier session.
C9_NoStaleDataAfterReplace ==
    [][\A i \in (Len(rtt_emitted) + 1)..Len(rtt_emitted') :
          IsSome(rtt_session') => rtt_emitted'[i].session = Unwrap(rtt_session').id]_vars

\* C10: the rtt-data events a polling task emits are, in order, the events
\* its per-tick reads returned: a prefix of them while it runs, all of
\* them once it has ended, by a stop or by an error.
C10_EmittedEqualsProduced ==
    /\ Len(rtt_emitted) <= Len(rtt_produced)
    /\ rtt_emitted = SubSeq(rtt_produced, 1, Len(rtt_emitted))
    /\ task.pc = "done" => rtt_emitted = rtt_produced

\* C11: a polling task that has ended emitted exactly one rtt-status event
\* with running=false, and no rtt-data event of the task is emitted once
\* such a status event has been.
C11_DataThenOneTerminalStatus ==
    /\ [](task.pc = "done" =>
             Cardinality({i \in 1..Len(rtt_status) : ~rtt_status[i].running}) = 1)
    /\ [][(\E i \in 1..Len(rtt_status) : ~rtt_status[i].running) =>
             Len(rtt_emitted') <= Len(rtt_emitted)]_vars

\* C12: the last rtt-status event of a polling task that has ended has
\* running=false, and carries an error exactly when the loop was left on
\* PollResult::Error (no error when it was left on stop_rtt).
C12_LastStatusTellsTheCause ==
    task.pc = "done" =>
        LET last == rtt_status[Len(rtt_status)]
        IN  /\ ~last.running
            /\ IsSome(last.error) <=> task.poll_result.kind = "Error"

\* C13: the loop is left on a core-access error exactly at the sixtieth
\* consecutive tick that failed to obtain the core: fewer consecutive
\* failures give no core-access error, and that error comes with a count
\* of sixty.
C13_SixtyConsecutiveFailures ==
    /\ (task.pc = "handle" /\ task.consecutive_errors \in 1..59) =>
           task.poll_result.error # Some("core")
    /\ (task.poll_result.kind = "Error" /\ task.poll_result.error = Some("core")) =>
           task.consecutive_errors = 60

\* A polling task that has ended after emitting more events than the size
\* threshold of the batch, on two channels.
C10_Witness ==
    /\ task.pc = "done"
    /\ Len(rtt_emitted) > BATCH_SIZE_THRESHOLD
    /\ \E i \in 1..Len(rtt_emitted) : rtt_emitted[i].channel = 1

(***************************************************************************)
(* FLM extraction (pack/flash_algo.rs).                                    *)
(* An FLM file is its ELF structure: the sections (name, kind, address,    *)
(* bytes, size), the symbol table, and the bytes at the FlashDevice symbol *)
(* when a section holds it.                                                *)
(***************************************************************************)

(***************************************************************************)
(* Strings are sequences of one-character strings.                         *)
(***************************************************************************)

\* str::starts_with
StartsWith(s, prefix) == Len(s) >= Len(prefix) /\ SubSeq(s, 1, Len(prefix)) = prefix

\* str::to_uppercase on ASCII text
ToUppercase(s) ==
    LET Up(c) ==
        CASE c = "a" -> "A" [] c = "b" -> "B" [] c = "c" -> "C" [] c = "d" -> "D"
          [] c = "e" -> "E" [] c = "f" -> "F" [] c = "g" -> "G" [] c = "h" -> "H"
          [] c = "i" -> "I" [] c = "j" -> "J" [] c = "k" -> "K" [] c = "l" -> "L"
          [] c = "m" -> "M" [] c = "n" -> "N" [] c = "o" -> "O" [] c = "p" -> "P"
          [] c = "q" -> "Q" [] c = "r" -> "R" [] c = "s" -> "S" [] c = "t" -> "T"
          [] c = "u" -> "U" [] c = "v" -> "V" [] c = "w" -> "W" [] c = "x" -> "X"
          [] c = "y" -> "Y" [] c = "z" -> "Z"
          [] OTHER -> c
    IN  [i \in 1..Len(s) |-> Up(s[i])]

\* format!("{}", n) of an unsigned integer
RECURSIVE Decimal(_)
Decimal(n) ==
    LET digits == <<"0", "1", "2", "3", "4", "5", "6", "7", "8", "9">>
    IN  IF n < 10 THEN <<digits[n + 1]>>
        ELSE Decimal(n \div 10) \o <<digits[(n % 10) + 1]>>

FlashDeviceHeader == 160

\* 0xFFFFFFFF, written as the signed value of the 32-bit pattern
SectorListEnd == -1

DefaultSectorSize == 4096

SaturatingSub(a, b) == IF a >= b THEN a - b ELSE 0

\* x | 1
SetThumbBit(x) == IF x % 2 = 0 THEN x + 1 ELSE x

\* extract_flash_device: elf.device is the slice of the section that holds
\* the FlashDevice symbol, None without the symbol or without such a section.
ExtractFlashDevice(elf) ==
    LET
        \* FlashDevice::from_elf_data: data.entries are the 8-byte sector
        \* descriptors that follow the header.
        FlashDeviceFromElfData(data) ==
            IF data.len < FlashDeviceHeader THEN None
            ELSE LET RECURSIVE Sectors(_)
                     Sectors(i) ==
                         IF FlashDeviceHeader + 8 * i > data.len THEN <<>>
                         ELSE IF data.entries[i].size = SectorListEnd THEN <<>>
                         ELSE (IF data.entries[i].size > 0 THEN <<data.entries[i]>> ELSE <<>>)
                              \o Sectors(i + 1)
                 IN  Some([device_size |-> data.device_size,
                           page_size |-> data.page_size,
                           sectors |-> Sectors(1)])
    IN
    IF IsSome(elf.device) THEN FlashDeviceFromElfData(Unwrap(elf.device)) ELSE None

\* extract_algorithm_blob: Ok(blob, code_start, data_offset) or Err.
ExtractAlgorithmBlob(elf) ==
    LET secs == elf.sections
        Zeros(n) == [i \in 1..n |-> 0]
        Idx(P(_)) == {i \in 1..Len(secs) : P(secs[i])}
        LastOf(S) == IF S = {} THEN None ELSE Some(secs[CHOOSE i \in S : \A j \in S : j <= i])
        FirstOf(S) == IF S = {} THEN None ELSE Some(secs[CHOOSE i \in S : \A j \in S : i <= j])
        IsPrgCode(s) == s.name = "PrgCode"
        IsPrgData(s) == s.name = "PrgData" /\ s.kind # "UninitializedData"
        IsPrgBss(s) == s.name = "PrgData" /\ s.kind = "UninitializedData"
        IsText(s) == s.kind = "Text" /\ s.data # <<>>
        IsData(s) == s.kind = "Data" /\ s.data # <<>>
        code_section == OrElse(LastOf(Idx(IsPrgCode)), FirstOf(Idx(IsText)))
        data_section == OrElse(LastOf(Idx(IsPrgData)), FirstOf(Idx(IsData)))
        bss == LastOf(Idx(IsPrgBss))
        bss_size == IF IsSome(bss) THEN Unwrap(bss).size ELSE 0
    IN  IF ~IsSome(code_section) THEN [ok |-> FALSE, error |-> "no code section"]
        ELSE LET code == Unwrap(code_section)
                 data_offset == IF IsSome(data_section)
                                THEN SaturatingSub(Unwrap(data_section).address, code.address)
                                ELSE Len(code.data)
                 padded == IF IsSome(data_section) /\ data_offset > Len(code.data)
                           THEN code.data \o Zeros(data_offset - Len(code.data))
                           ELSE code.data
                 with_data == IF IsSome(data_section)
                              THEN padded \o Unwrap(data_section).data
                              ELSE padded
             IN  [ok |-> TRUE,
                  blob |-> with_data \o Zeros(bss_size),
                  code_start |-> code.address,
                  data_offset |-> data_offset]

\* generate_default_sectors
GenerateDefaultSectors(flash_size) ==
    LET sector_count == (flash_size + DefaultSectorSize - 1) \div DefaultSectorSize
    IN  [i \in 1..sector_count |->
            [size |-> DefaultSectorSize, address |-> (i - 1) * DefaultSectorSize]]

\* symbols.get(name).copied()
SymbolsGetDefault(symbols, name) ==
    IF name \in DOMAIN symbols THEN Some(symbols[name]) ELSE Some(1)

SymbolsGet(symbols, name) ==
    IF name \in DOMAIN symbols THEN Some(symbols[name]) ELSE None

\* extract_flash_algorithm_from_flm; blob is the bytes handed to the base64
\* encoder.
ExtractFlashAlgorithmFromFlm(file_name, elf, flash_start, flash_size) ==
    LET
        \* extract_function_symbols: the map from function name to thumb offset;
        \* a later symbol of the same name replaces an earlier one.
        ExtractFunctionSymbols(obj, code_start) ==
            LET wanted == {"Init", "UnInit", "ProgramPage", "EraseSector", "EraseChip"}
                At(name) == {i \in 1..Len(obj.symbols) : obj.symbols[i].name = name}
            IN  [name \in {n \in wanted : At(n) # {}} |->
                    LET i == CHOOSE i \in At(name) : \A j \in At(name) : j <= i
                    IN  SetThumbBit(SaturatingSub(obj.symbols[i].address, code_start))]
        \* build_sectors_from_flash_device
        BuildSectorsFromFlashDevice(fd) ==
            IF fd.sectors = <<>> THEN GenerateDefaultSectors(fd.device_size)
            ELSE LET RECURSIVE Run(_, _, _)
                     Run(size, addr, region_end) ==
                         IF addr < region_end
                         THEN <<[size |-> size, address |-> addr]>> \o Run(size, addr + size, region_end)
                         ELSE <<>>
                     RECURSIVE Regions(_)
                     Regions(i) ==
                         IF i > Len(fd.sectors) THEN <<>>
                         ELSE Run(fd.sectors[i].size, fd.sectors[i].address,
                                  IF i + 1 <= Len(fd.sectors) THEN fd.sectors[i + 1].address
                                  ELSE fd.device_size)
                              \o Regions(i + 1)
                 IN  IF Regions(1) = <<>> THEN GenerateDefaultSectors(fd.device_size)
                     ELSE Regions(1)
    IN
    LET \* Path::file_stem of a file name: the name up to its last dot, the
        \* whole name when it has none or only a leading one
        FileStem(name) ==
            LET dots == {i \in 2..Len(name) : name[i] = "."}
            IN  IF dots = {} THEN name
                ELSE SubSeq(name, 1, (CHOOSE i \in dots : \A j \in dots : j <= i) - 1)
        flash_device == ExtractFlashDevice(elf)
        b == ExtractAlgorithmBlob(elf)
    IN  IF ~b.ok THEN [ok |-> FALSE, error |-> b.error]
        ELSE LET symbols == ExtractFunctionSymbols(elf, b.code_start)
                 sectors == IF IsSome(flash_device)
                            THEN BuildSectorsFromFlashDevice(Unwrap(flash_device))
                            ELSE GenerateDefaultSectors(flash_size)
             IN  IF ~IsSome(SymbolsGet(symbols, "ProgramPage"))
                 THEN [ok |-> FALSE, error |-> "no ProgramPage"]
                 ELSE IF ~IsSome(SymbolsGet(symbols, "EraseSector"))
                 THEN [ok |-> FALSE, error |-> "no EraseSector"]
                 ELSE [ok |-> TRUE,
                       name |-> FileStem(file_name),
                       blob |-> b.blob,
                       pc_init |-> SymbolsGet(symbols, "Init"),
                       pc_uninit |-> SymbolsGet(symbols, "UnInit"),
                       pc_program_page |-> Unwrap(SymbolsGet(symbols, "ProgramPage")),
                       pc_erase_sector |-> Unwrap(SymbolsGet(symbols, "EraseSector")),
                       pc_erase_all |-> SymbolsGet(symbols, "EraseChip"),
                       data_section_offset |-> b.data_offset,
                       address_range |-> [start |-> flash_start, end |-> flash_start + flash_size],
                       page_size |-> IF IsSome(flash_device)
                                     THEN Unwrap(flash_device).page_size ELSE 256,
                       sectors |-> sectors]

\* The FLM files considered: section layouts with and without a code
\* section, every subset of the five functions placed from address 0 or 32
\* (from 1: with the Thumb bit in the symbol value), and FlashDevice data
\* that is absent, too short, or lists sector runs.
FlmInputs ==
    LET FlmSections ==
            LET Sec(name, kind, address, data, size) ==
                    [name |-> name, kind |-> kind, address |-> address, data |-> data, size |-> size]
            IN  { <<Sec("PrgCode", "Text", 0, <<1, 2, 3, 4>>, 4)>>,
                  <<Sec("PrgCode", "Text", 32, <<1, 2, 3, 4>>, 4),
                    Sec("PrgData", "Data", 40, <<9, 9>>, 2),
                    Sec("PrgData", "UninitializedData", 44, <<>>, 2)>>,
                  <<Sec(".text", "Text", 0, <<1, 2, 3, 4>>, 4), Sec(".data", "Data", 4, <<7>>, 1)>>,
                  <<Sec("PrgData", "Data", 0, <<9>>, 1), Sec("PrgCode", "Text", 16, <<1, 2>>, 2)>>,
                  <<Sec(".text", "Text", 0, <<>>, 0)>>,
                  <<>> }
        FlmSymbols ==
            LET order == <<"Init", "UnInit", "EraseChip", "EraseSector", "ProgramPage">>
                RECURSIVE Table(_, _, _)
                Table(present, base, i) ==
                    IF i > Len(order) THEN <<>>
                    ELSE (IF order[i] \in present
                          THEN <<[name |-> order[i], address |-> base + 4 * i]>> ELSE <<>>)
                         \o Table(present, base, i + 1)
            IN  {Table(present, base, 1) :
                    present \in SUBSET {"Init", "UnInit", "EraseChip", "EraseSector", "ProgramPage"},
                    base \in {0, 1, 32}}
        FlmDevices ==
            LET End == [size |-> SectorListEnd, address |-> SectorListEnd]
                Dev(len, device_size, entries) ==
                    Some([len |-> len, device_size |-> device_size, page_size |-> 1024,
                          entries |-> entries])
            IN  { None,
                  Dev(100, 8192, <<>>),
                  Dev(176, 8192, <<[size |-> 4096, address |-> 0], End>>),
                  Dev(184, 8192, <<[size |-> 1024, address |-> 0], [size |-> 4096, address |-> 4096], End>>),
                  Dev(184, 8192, <<[size |-> 0, address |-> 0], [size |-> 2048, address |-> 0], End>>),
                  Dev(176, 16384, <<[size |-> 4096, address |-> 0], End>>),
                  Dev(168, 8192, <<End>>),
                  Dev(168, 8192, <<[size |-> 4096, address |-> 0]>>) }
    IN  [file_name : {<<"F", "1", ".", "F", "L", "M">>},
         elf : [sections : FlmSections, symbols : FlmSymbols, device : FlmDevices],
         flash_start : {DefaultFlashStart},
         flash_size : {8192, 16384}]

\* One call of extract_flash_algorithm_from_flm.
ExtractFlm ==
    /\ algo = None
    /\ algo' = Some(ExtractFlashAlgorithmFromFlm(flm.file_name, flm.elf,
                                                 flm.flash_start, flm.flash_size))
    /\ UNCHANGED <<nonPackVars, legacy, flm, pack, yaml, rescan, report, store, outdated>>

\* C14: each entry point of a returned algorithm is odd and is
\* (symbol address - code section address) | 1.
C14_EntryPointsAreThumbOffsets ==
    (IsSome(algo) /\ Unwrap(algo).ok) =>
        LET r == Unwrap(algo)
            code_addr == ExtractAlgorithmBlob(flm.elf).code_start
            Addr(name) == (CHOOSE s \in {flm.elf.symbols[i] : i \in 1..Len(flm.elf.symbols)} :
                               s.name = name).address
            Good(pc, name) == pc % 2 = 1 /\ pc = SetThumbBit(Addr(name) - code_addr)
        IN  /\ Good(r.pc_program_page, "ProgramPage")
            /\ Good(r.pc_erase_sector, "EraseSector")
            /\ IsSome(r.pc_init) => Good(Unwrap(r.pc_init), "Init")
            /\ IsSome(r.pc_uninit) => Good(Unwrap(r.pc_uninit), "UnInit")
            /\ IsSome(r.pc_erase_all) => Good(Unwrap(r.pc_erase_all), "EraseChip")

\* C15: the sector list of a returned algorithm is non-empty, starts at
\* address 0, is contiguous (each sector starts where the previous one
\* ends) and ends at flash_size.
C15_SectorsCoverFlash ==
    (IsSome(algo) /\ Unwrap(algo).ok) =>
        LET sectors == Unwrap(algo).sectors
        IN  /\ sectors # <<>>
            /\ sectors[1].address = 0
            /\ \A i \in 1..(Len(sectors) - 1) :
                   sectors[i + 1].address = sectors[i].address + sectors[i].size
            /\ sectors[Len(sectors)].address + sectors[Len(sectors)].size = flm.flash_size

\* C34: the blob of a returned algorithm is the code bytes, zero padding up
\* to data address - code address, the data bytes and bss_size zero bytes,
\* and data_section_offset is the index in the blob at which the data bytes
\* begin, wherever the data section lies relative to the code section;
\* without a data section data_section_offset is the number of code bytes.
C34_DataOffsetIsWhereDataBegins ==
    (IsSome(algo) /\ Unwrap(algo).ok) =>
        LET r == Unwrap(algo)
            secs == flm.elf.sections
            Sections(names, kind) ==
                {i \in 1..Len(secs) : secs[i].name \in names /\ secs[i].kind = kind}
            code == secs[CHOOSE i \in Sections({"PrgCode", ".text"}, "Text") : TRUE]
            data_sections == Sections({"PrgData", ".data"}, "Data")
            bss_sections == Sections({"PrgData"}, "UninitializedData")
            bss_size == IF bss_sections = {} THEN 0
                        ELSE secs[CHOOSE i \in bss_sections : TRUE].size
            Zeros(n) == [i \in 1..n |-> 0]
        IN  IF data_sections = {}
            THEN /\ r.blob = code.data \o Zeros(bss_size)
                 /\ r.data_section_offset = Len(code.data)
            ELSE LET data == secs[CHOOSE i \in data_sections : TRUE]
                     gap == SaturatingSub(data.address - code.address, Len(code.data))
                 IN  /\ r.blob = code.data \o Zeros(gap) \o data.data \o Zeros(bss_size)
                     /\ r.data_section_offset = Len(code.data) + gap
                     /\ SubSeq(r.blob, r.data_section_offset + 1,
                               r.data_section_offset + Len(data.data)) = data.data

\* C16: the call returns an error exactly when the FLM has no code section
\* (PrgCode, or else a non-empty text section), no ProgramPage symbol or no
\* EraseSector symbol; Init, UnInit and EraseChip are reported present
\* exactly when the FLM has the symbol.
C16_ErrorExactlyWhenRequiredPartMissing ==
    IsSome(algo) =>
        LET r == Unwrap(algo)
            Has(name) == \E i \in 1..Len(flm.elf.symbols) : flm.elf.symbols[i].name = name
            has_code == \E i \in 1..Len(flm.elf.sections) :
                            \/ flm.elf.sections[i].name = "PrgCode"
                            \/ flm.elf.sections[i].kind = "Text" /\ flm.elf.sections[i].data # <<>>
        IN  /\ r.ok <=> (has_code /\ Has("ProgramPage") /\ Has("EraseSector"))
            /\ r.ok => /\ IsSome(r.pc_init) <=> Has("Init")
                       /\ IsSome(r.pc_uninit) <=> Has("UnInit")
                       /\ IsSome(r.pc_erase_all) <=> Has("EraseChip")

\* A call that failed on an FLM with a code section and EraseSector but no
\* ProgramPage.
C16_Witness ==
    /\ IsSome(algo)
    /\ ~Unwrap(algo).ok
    /\ flm.elf.sections # <<>>
    /\ flm.elf.sections[1].name = "PrgCode"
    /\ \E i \in 1..Len(flm.elf.symbols) : flm.elf.symbols[i].name = "EraseSector"
    /\ \A i \in 1..Len(flm.elf.symbols) : flm.elf.symbols[i].name # "ProgramPage"

(***************************************************************************)
(* Target generation (pack/target_gen.rs).                                 *)
(* The YAML document is its structure: the scanner-version marker, the     *)
(* family-level flash algorithms and the variants.                         *)
(***************************************************************************)

MaxPackDevices == 2

\* PACK_SCANNER_VERSION = "2.0.0"
PACK_SCANNER_VERSION == <<"2", ".", "0", ".", "0">>

\* find_flm_files on the pack directory's FLM files
FindFlmFiles(flm_files) ==
    IF flm_files = <<>> THEN [ok |-> FALSE, error |-> "no FLM file"]
    ELSE [ok |-> TRUE, files |-> flm_files]

\* match_flm_for_device
MatchFlmForDevice(flm_files, device_name, flash_size) ==
    LET \* str::contains
        Contains(s, sub) ==
            \E i \in 0..(Len(s) - Len(sub)) : SubSeq(s, i + 1, i + Len(sub)) = sub
        \* str::trim_end_matches: the suffix is removed as often as it occurs
        RECURSIVE TrimEndMatches(_, _)
        TrimEndMatches(s, suffix) ==
            IF /\ suffix # <<>>
               /\ Len(s) >= Len(suffix)
               /\ SubSeq(s, Len(s) - Len(suffix) + 1, Len(s)) = suffix
            THEN TrimEndMatches(SubSeq(s, 1, Len(s) - Len(suffix)), suffix)
            ELSE s
        flash_size_kb == flash_size \div 1024
        flash_size_mb == flash_size \div (1024 * 1024)
        size_patterns ==
            IF flash_size_mb >= 1
            THEN {<<"_">> \o Decimal(flash_size_mb) \o <<"M", "B">>,
                  Decimal(flash_size_mb) \o <<"M", "B">>}
            ELSE {<<"_">> \o Decimal(flash_size_kb) \o <<"K", "B">>,
                  Decimal(flash_size_kb) \o <<"K", "B">>}
    IN  LetIn(ToUppercase(device_name), LAMBDA device_upper :
        LetIn([i \in 1..Len(flm_files) |-> ToUppercase(flm_files[i].file_name)],
              LAMBDA file_name_upper :
        LetIn([i \in 1..Len(flm_files) |->
                  TrimEndMatches(file_name_upper[i], <<".", "F", "L", "M">>)],
              LAMBDA stem :
        LetIn({ToUppercase(pattern) : pattern \in size_patterns}, LAMBDA patterns_upper :
        LetIn(IF \/ StartsWith(device_upper, <<"G", "D", "3", "2">>)
                 \/ StartsWith(device_upper, <<"S", "T", "M", "3", "2">>)
              THEN SubSeq(device_upper, 1, 6)
              ELSE SubSeq(device_upper, 1, 4),
              LAMBDA series_prefix :
            LET device_series == IF Len(device_upper) >= 9 THEN SubSeq(device_upper, 1, 8)
                                 ELSE device_upper
                exact == {i \in 1..Len(flm_files) : stem[i] = device_upper}
                by_size == {i \in 1..Len(flm_files) :
                               /\ Contains(file_name_upper[i], series_prefix)
                               /\ \E p \in patterns_upper : Contains(file_name_upper[i], p)}
                by_series == {i \in 1..Len(flm_files) : stem[i] = device_series}
                fuzzy == {i \in 1..Len(flm_files) :
                             /\ Contains(file_name_upper[i], series_prefix)
                             /\ ~Contains(file_name_upper[i], <<"K", "B">>)
                             /\ ~Contains(file_name_upper[i], <<"M", "B">>)}
                First(S) == flm_files[CHOOSE i \in S : \A j \in S : i <= j]
            IN  IF exact # {} THEN Some(First(exact))
                ELSE IF by_size # {} THEN Some(First(by_size))
                ELSE IF by_series # {} THEN Some(First(by_series))
                ELSE IF fuzzy # {} THEN Some(First(fuzzy))
                ELSE None)))))

\* The body of the collection loop for one device: the algorithm extracted
\* for it, renamed to its key "<name>_<flash size in kB>", or None.
CollectAlgo(flm_files, device) ==
    IF device.flash_size > 0
    THEN LetIn(MatchFlmForDevice(flm_files, device.name, device.flash_size), LAMBDA m :
             IF IsSome(m)
             THEN LetIn(ExtractFlashAlgorithmFromFlm(Unwrap(m).file_name, Unwrap(m).elf,
                                                     device.flash_start, device.flash_size),
                        LAMBDA r :
                            IF r.ok
                            THEN Some([r EXCEPT !.name = @ \o <<"_">>
                                                    \o Decimal(device.flash_size \div 1024)])
                            ELSE None)
             ELSE None)
    ELSE None

AlgoMapValuesFirstAddress(algo_map, order) ==
    [k \in 1..Len(order) |->
        [algo_map[order[k]] EXCEPT !.load_address = algo_map[order[1]].load_address]]

\* algo_map.values(), iterated in the order given
AlgoMapValues(algo_map, order) == [k \in 1..Len(order) |-> algo_map[order[k]]]

\* generate_probe_rs_yaml_with_algo; order is the iteration order of
\* algo_map.values(), one of the enumerations of its keys, now the local
\* time of the call.
GenerateProbeRsYamlWithAlgo(devices, flm_files, order, now) ==
    LET
        \* map_core_type
        MapCoreType(core) ==
            LetIn(ToUppercase(core), LAMBDA upper :
                LET Cortex(m) == <<"C", "O", "R", "T", "E", "X", "-", "M">> \o m
                    Cm(m) == <<"C", "M">> \o m
                IN  IF upper \in {Cortex(<<"0">>), Cm(<<"0">>)} THEN "armv6m"
                    ELSE IF upper \in {Cortex(<<"0", "+">>), Cm(<<"0", "P", "L", "U", "S">>),
                                       Cm(<<"0", "+">>)} THEN "armv6m"
                    ELSE IF upper \in {Cortex(<<"3">>), Cm(<<"3">>)} THEN "armv7m"
                    ELSE IF upper \in {Cortex(<<"4">>), Cm(<<"4">>)} THEN "armv7em"
                    ELSE IF upper \in {Cortex(<<"7">>), Cm(<<"7">>)} THEN "armv7em"
                    ELSE IF upper \in {Cortex(<<"3", "3">>), Cm(<<"3", "3">>)} THEN "armv8m"
                    ELSE "armv7em")
    IN
    IF ~FindFlmFiles(flm_files).ok THEN [ok |-> FALSE, error |-> FindFlmFiles(flm_files).error]
    ELSE LetIn([i \in 1..Len(devices) |-> CollectAlgo(flm_files, devices[i])], LAMBDA collect :
         LET collected(i) == collect[i]
             with_algo == {i \in 1..Len(devices) : IsSome(collected(i))}
             \* algo_map: the first device of a key stores the entry
             FirstOf(key) == CHOOSE i \in with_algo :
                                 /\ Unwrap(collected(i)).name = key
                                 /\ \A j \in with_algo :
                                        Unwrap(collected(j)).name = key => i <= j
             \* device_algo_map: the last device of a name stores the key
             AlgoNameOf(name) ==
                 LET named == {i \in with_algo : devices[i].name = name}
                 IN  IF named = {} THEN None
                     ELSE Some(Unwrap(collected(CHOOSE i \in named :
                                                    \A j \in named : j <= i)).name)
             algo_map == [key \in {order[k] : k \in 1..Len(order)} |->
                             [algo |-> Unwrap(collected(FirstOf(key))),
                              load_address |-> devices[FirstOf(key)].ram_start + 32]]
         IN  [ok |-> TRUE,
              version |-> PACK_SCANNER_VERSION,
              generated_at |-> now,
              flash_algorithms |-> AlgoMapValues(algo_map, order),
              variants |->
                  [i \in 1..Len(devices) |->
                      [name |-> devices[i].name,
                       ram |-> IF devices[i].ram_size > 0
                               THEN Some([start |-> devices[i].ram_start,
                                          end |-> devices[i].ram_start + devices[i].ram_size])
                               ELSE None,
                       nvm |-> IF devices[i].flash_size > 0
                               THEN Some([start |-> devices[i].flash_start,
                                          end |-> devices[i].flash_start + devices[i].flash_size])
                               ELSE None,
                       core |-> MapCoreType(devices[i].core),
                       flash_algorithms |-> AlgoNameOf(devices[i].name)]]])

\* The iteration orders of algo_map.values() for a device list.
AlgoMapOrders(devices, flm_files) ==
    LetIn({CollectAlgo(flm_files, devices[i]) : i \in 1..Len(devices)} \ {None}, LAMBDA algos :
    LetIn({Unwrap(a).name : a \in algos}, LAMBDA keys :
        {o \in [1..Cardinality(keys) -> keys] :
            \A a, b \in 1..Cardinality(keys) : o[a] = o[b] => a = b}))

\* The devices considered: two that share an FLM and a flash size but not a
\* RAM start, one that matches no FLM, one without flash, one whose FLM
\* lacks ProgramPage. The callers pass at least one device.
PackInputs ==
    LET PackDevices ==
            LET Dev(name, flash_size, ram_start) ==
                    [name |-> name,
                     core |-> IF ram_start = MainSramStart
                              THEN <<"C", "o", "r", "t", "e", "x", "-", "M", "3">>
                              ELSE <<"c", "m", "0", "+">>,
                     flash_start |-> DefaultFlashStart,
                     flash_size |-> flash_size, ram_start |-> ram_start, ram_size |-> 4096]
            IN  { Dev(<<"a", "b", "1", "2", "c", "8">>, 8192, MainSramStart),
                  Dev(<<"a", "b", "1", "2", "c", "9">>, 8192, 268435456),
                  Dev(<<"z", "z", "9", "9">>, 8192, MainSramStart),
                  Dev(<<"a", "b", "1", "2", "r">>, 0, MainSramStart),
                  Dev(<<"a", "b", "3", "4">>, 16384, MainSramStart) }
        PackFlmFiles ==
            LET Elf(names) ==
                    [sections |-> <<[name |-> "PrgCode", kind |-> "Text", address |-> 0,
                                    data |-> <<1, 2, 3, 4>>, size |-> 4]>>,
                     symbols |-> [i \in 1..Len(names) |-> [name |-> names[i], address |-> 4 * i + 1]],
                     device |-> None]
                good == [file_name |-> <<"A", "B", "1", "2", "_", "8", "K", "B", ".", "F", "L", "M">>,
                         elf |-> Elf(<<"Init", "ProgramPage", "EraseSector">>)]
                bad == [file_name |-> <<"a", "b", "3", "4", ".", "f", "l", "m">>,
                        elf |-> Elf(<<"Init", "EraseSector">>)]
                other == [file_name |-> <<"a", "b", "3", "4", ".", "f", "l", "m">>,
                          elf |-> Elf(<<"ProgramPage", "EraseSector">>)]
            IN  {<<>>, <<good>>, <<bad>>, <<good, bad>>, <<good, other>>}
    IN  [devices : UNION {[1..n -> PackDevices] : n \in 1..MaxPackDevices},
         flm_files : PackFlmFiles]

\* One call of generate_probe_rs_yaml_with_algo.
GenerateYaml ==
    /\ yaml = None
    /\ \E order \in AlgoMapOrders(pack.devices, pack.flm_files), now \in 1..2 :
           yaml' = Some(GenerateProbeRsYamlWithAlgo(pack.devices, pack.flm_files, order, now))
    /\ UNCHANGED <<nonPackVars, legacy, flm, algo, pack, rescan, report, store, outdated>>

\* The same pack, unchanged, is scanned again, not earlier than the first
\* time.
GenerateYamlAgain ==
    /\ IsSome(yaml)
    /\ rescan = None
    /\ \E order \in AlgoMapOrders(pack.devices, pack.flm_files), now \in 1..2 :
           /\ Unwrap(yaml).ok => now >= Unwrap(yaml).generated_at
           /\ rescan' = Some(GenerateProbeRsYamlWithAlgo(pack.devices, pack.flm_files,
                                                         order, now))
    /\ UNCHANGED <<nonPackVars, legacy, flm, algo, pack, yaml, report, store, outdated>>

\* C17: in a generated document, the algorithm a variant references has
\* load_address = that device's RAM start + 0x20.
C17_LoadAddressIsDeviceRamStart ==
    (IsSome(yaml) /\ Unwrap(yaml).ok) =>
        LET y == Unwrap(yaml)
        IN  \A i \in 1..Len(y.variants) :
                IsSome(y.variants[i].flash_algorithms) =>
                    \A k \in 1..Len(y.flash_algorithms) :
                        y.flash_algorithms[k].algo.name = Unwrap(y.variants[i].flash_algorithms)
                            => y.flash_algorithms[k].load_address
                                   = pack.devices[i].ram_start + 32

\* C18: the call succeeds for every device list and FLM set, and the
\* document has one variant per device, in order, with an algorithm
\* reference exactly for the devices whose algorithm was extracted.
C18_ScanNeverAborts ==
    IsSome(yaml) =>
        LET y == Unwrap(yaml)
        IN  /\ y.ok
            /\ Len(y.variants) = Len(pack.devices)
            /\ \A i \in 1..Len(pack.devices) :
                   /\ y.variants[i].name = pack.devices[i].name
                   /\ IsSome(y.variants[i].flash_algorithms)
                          <=> IsSome(CollectAlgo(pack.flm_files, pack.devices[i]))

\* C21: two scans of the same unchanged pack give the same target set: the
\* same variants (name, memory map, core type, algorithm reference) and the
\* same algorithm definitions, whatever the iteration order of the map and
\* the time of each scan; and the second scan succeeds exactly when the
\* first did.
C21_RescanGivesTheSameTargets ==
    LET TargetSet(y) ==
            [variants |-> y.variants,
             algorithms |-> {y.flash_algorithms[k] : k \in 1..Len(y.flash_algorithms)}]
    IN  (IsSome(yaml) /\ IsSome(rescan)) =>
            /\ Unwrap(yaml).ok = Unwrap(rescan).ok
            /\ Unwrap(yaml).ok => TargetSet(Unwrap(yaml)) = TargetSet(Unwrap(rescan))

\* Two scans that iterated two algorithms in different orders, at different
\* times.
C21_Witness ==
    /\ IsSome(yaml) /\ IsSome(rescan)
    /\ Unwrap(yaml).ok /\ Unwrap(rescan).ok
    /\ Len(Unwrap(yaml).flash_algorithms) = 2
    /\ Unwrap(yaml).flash_algorithms # Unwrap(rescan).flash_algorithms
    /\ Unwrap(yaml).generated_at # Unwrap(rescan).generated_at
    /\ \E i \in 1..Len(pack.devices) : Unwrap(yaml).variants[i].core = "armv6m"

(***************************************************************************)
(* Scan report (pack/scan_report.rs, target_gen.rs generate_scan_report).  *)
(***************************************************************************)

\* PackScanReport::new
PackScanReportNew ==
    [total_devices |-> 0, devices_with_algo |-> 0, devices_without_algo |-> 0,
     devices |-> <<>>, algorithm_stats |-> {}]

\* PackScanReport::add_device
AddDevice(r, device) ==
    [r EXCEPT !.total_devices = @ + 1,
              !.devices_with_algo = IF IsSome(device.algorithm) THEN @ + 1 ELSE @,
              !.devices_without_algo =
                  IF ~IsSome(device.algorithm) /\ device.flash_size > 0 THEN @ + 1 ELSE @,
              !.devices = Append(@, device)]

\* PackScanReport::calculate_algorithm_stats; the list is kept as a set, its
\* order among equal counts being the hash map's.
CalculateAlgorithmStats(r) ==
    LET with == {i \in 1..Len(r.devices) : IsSome(r.devices[i].algorithm)}
        names == {Unwrap(r.devices[i].algorithm).name : i \in with}
        Using(n) == {i \in with : Unwrap(r.devices[i].algorithm).name = n}
    IN  [r EXCEPT !.algorithm_stats =
            {[algorithm_name |-> n, device_count |-> Cardinality(Using(n)),
              devices |-> {r.devices[i].name : i \in Using(n)}] : n \in names}]

\* The DeviceReport generate_scan_report builds for one device.
DeviceReportOf(flm_files, device) ==
    LetIn(IF device.flash_size > 0
          THEN MatchFlmForDevice(flm_files, device.name, device.flash_size) ELSE None,
          LAMBDA m :
    LetIn(IF IsSome(m)
          THEN ExtractFlashAlgorithmFromFlm(Unwrap(m).file_name, Unwrap(m).elf,
                                            device.flash_start, device.flash_size)
          ELSE [ok |-> FALSE],
          LAMBDA a :
        [name |-> device.name, core |-> device.core,
         flash_start |-> device.flash_start, flash_size |-> device.flash_size,
         ram_start |-> device.ram_start, ram_size |-> device.ram_size,
         algorithm |-> IF a.ok
                       THEN Some([name |-> a.name, flm_file |-> Unwrap(m).file_name,
                                  page_size |-> a.page_size, sector_count |-> Len(a.sectors)])
                       ELSE None,
         status |-> IF device.flash_size > 0 /\ ~a.ok THEN "Warning" ELSE "Ok"]))

\* generate_scan_report: the report is created, or the call fails when the
\* pack has no FLM file.
ScanReportBegin ==
    /\ report = None
    /\ report' = IF FindFlmFiles(pack.flm_files).ok
                 THEN Some([pc |-> "devices", r |-> PackScanReportNew])
                 ELSE Some([pc |-> "failed", r |-> PackScanReportNew])
    /\ UNCHANGED <<nonPackVars, legacy, flm, algo, pack, yaml, rescan, store, outdated>>

\* One turn of the loop over the devices: report.add_device(device_report).
ScanReportAddDevice ==
    /\ IsSome(report)
    /\ Unwrap(report).pc = "devices"
    /\ Len(Unwrap(report).r.devices) < Len(pack.devices)
    /\ LET r == Unwrap(report).r
           device == pack.devices[Len(r.devices) + 1]
       IN  report' = Some([pc |-> "devices",
                           r |-> AddDevice(r, DeviceReportOf(pack.flm_files, device))])
    /\ UNCHANGED <<nonPackVars, legacy, flm, algo, pack, yaml, rescan, store, outdated>>

\* After the loop: report.calculate_algorithm_stats() and Ok(report).
ScanReportFinish ==
    /\ IsSome(report)
    /\ Unwrap(report).pc = "devices"
    /\ Len(Unwrap(report).r.devices) = Len(pack.devices)
    /\ report' = Some([pc |-> "done", r |-> CalculateAlgorithmStats(Unwrap(report).r)])
    /\ UNCHANGED <<nonPackVars, legacy, flm, algo, pack, yaml, rescan, store, outdated>>

\* C19: in a report built by add_device calls, devices_with_algo +
\* devices_without_algo = total_devices = the number of entries in devices.
C19_CountersAddUp ==
    IsSome(report) =>
        LET r == Unwrap(report).r
        IN  /\ r.devices_with_algo + r.devices_without_algo = r.total_devices
            /\ r.total_devices = Len(r.devices)

(***************************************************************************)
(* Pack store (commands/config.rs, target_gen.rs).                         *)
(* A pack directory is its targets.yaml (None when missing, else its       *)
(* lines), the devices its PDSC parses to, its FLM files and its           *)
(* scan_report.json.                                                       *)
(***************************************************************************)

\* "# ZUOLANDAPLINK Pack Scanner Version:"
VersionMarker ==
    <<"#", " ", "Z", "U", "O", "L", "A", "N", "D", "A", "P", "L", "I", "N", "K", " ",
      "P", "a", "c", "k", " ", "S", "c", "a", "n", "n", "e", "r", " ",
      "V", "e", "r", "s", "i", "o", "n", ":">>

\* detect_pack_scanner_version
DetectPackScannerVersion(pack_dir) ==
    IF ~IsSome(pack_dir.yaml) THEN None
    ELSE LET lines == Unwrap(pack_dir.yaml)
             marked == {i \in 1..Len(lines) : StartsWith(lines[i], VersionMarker)}
             RECURSIVE TrimStartMatches(_)
             TrimStartMatches(s) ==
                 IF StartsWith(s, VersionMarker)
                 THEN TrimStartMatches(SubSeq(s, Len(VersionMarker) + 1, Len(s)))
                 ELSE s
             RECURSIVE TrimStart(_)
             TrimStart(s) == IF s # <<>> /\ s[1] = " " THEN TrimStart(Tail(s)) ELSE s
             RECURSIVE TrimEnd(_)
             TrimEnd(s) == IF s # <<>> /\ s[Len(s)] = " "
                           THEN TrimEnd(SubSeq(s, 1, Len(s) - 1)) ELSE s
         IN  IF marked = {} THEN None
             ELSE Some(TrimEnd(TrimStart(TrimStartMatches(
                      lines[CHOOSE i \in marked : \A j \in marked : i <= j]))))

NeedsRescanWhenMarked(pack_dir) ==
    LetIn(DetectPackScannerVersion(pack_dir), LAMBDA version :
        IF IsSome(version) THEN Unwrap(version) # PACK_SCANNER_VERSION ELSE FALSE)

\* needs_rescan
NeedsRescan(pack_dir) ==
    LetIn(DetectPackScannerVersion(pack_dir), LAMBDA version :
        IF IsSome(version) THEN Unwrap(version) # PACK_SCANNER_VERSION ELSE TRUE)

\* register_pack_devices: the result and the directory it leaves; now is
\* the local time, registers tells whether probe-rs accepts the document (add_target_from_yaml).
RegisterPackDevices(pack_dir, pack_name, order, now, registers) ==
    LET
        \* The lines of the document: the version marker, the generation time, the
        \* family name; the algorithms and variants follow.
        YamlLines(y, family_name) ==
            << VersionMarker \o <<" ">> \o y.version,
               <<"#", " ", "G", "e", "n", "e", "r", "a", "t", "e", "d", " ", "a", "t", ":">>,
               <<"n", "a", "m", "e", ":", " ">> \o family_name >>
    IN
    LET devices == pack_dir.devices
        RECURSIVE Report(_)
        Report(n) == IF n = 0 THEN PackScanReportNew
                     ELSE AddDevice(Report(n - 1), DeviceReportOf(pack_dir.flm_files, devices[n]))
    IN  IF devices = <<>> THEN [ok |-> FALSE, dir |-> pack_dir]
        ELSE LetIn(GenerateProbeRsYamlWithAlgo(devices, pack_dir.flm_files, order, now),
                   LAMBDA y :
             IF ~y.ok THEN [ok |-> FALSE, dir |-> pack_dir]
             ELSE LetIn([pack_dir EXCEPT !.yaml = Some(YamlLines(y, pack_name))],
                        LAMBDA written :
                  IF ~registers THEN [ok |-> FALSE, dir |-> written]
                  ELSE [ok |-> TRUE,
                        dir |-> [written EXCEPT !.scan_report =
                                    Some(CalculateAlgorithmStats(Report(Len(devices))))]]))

\* check_outdated_packs
CheckOutdatedPacks ==
    /\ outdated' = [outdated EXCEPT !.last = "check",
                                    !.listed = {p \in DOMAIN store : NeedsRescan(store[p])}]
    /\ UNCHANGED <<nonPackVars, legacy, flm, algo, pack, yaml, rescan, report, store>>

\* rescan_pack
RescanPack ==
    \E pack_name \in {"p1", "p2", "p3"}, registers \in BOOLEAN :
        /\ IF pack_name \notin DOMAIN store
           THEN /\ outdated' = [outdated EXCEPT !.last = "rescan", !.name = pack_name,
                                                !.ok = FALSE]
                /\ UNCHANGED store
           ELSE \E order \in AlgoMapOrders(store[pack_name].devices, store[pack_name].flm_files),
                   now \in 1..2 :
                    \E r \in {RegisterPackDevices(store[pack_name], pack_name, order, now,
                                                   registers)} :
                        /\ store' = [store EXCEPT ![pack_name] = r.dir]
                        /\ outdated' = [outdated EXCEPT !.last = "rescan", !.name = pack_name,
                                                        !.ok = r.ok]
        /\ UNCHANGED <<nonPackVars, legacy, flm, algo, pack, yaml, rescan, report>>

\* The archives considered: one that is not a zip file, one without a .pdsc
\* entry, and packs named p1 (the name of an imported pack) and p3 with one
\* device and two FLM files.
PackArchives ==
    LetIn(CHOOSE q \in PackInputs :
              /\ Len(q.devices) = 1
              /\ q.devices[1].name = <<"a", "b", "1", "2", "c", "8">>
              /\ Len(q.flm_files) = 2
              /\ \A i \in 1..2 : \E k \in DOMAIN q.flm_files[i].elf.symbols :
                                     q.flm_files[i].elf.symbols[k].name = "ProgramPage",
          LAMBDA q :
        {[readable |-> FALSE, pdsc |-> None, flm_files |-> <<>>],
         [readable |-> TRUE, pdsc |-> None, flm_files |-> q.flm_files]}
        \cup {[readable |-> TRUE, pdsc |-> Some([name |-> n, devices |-> q.devices]),
               flm_files |-> q.flm_files] : n \in {"p1", "p3"}})

\* PackManager::import_pack: the archive is opened, its .pdsc is looked for
\* and parsed, the directory named after the pack is created
\* (create_dir_all) and every entry is written into it (File::create).
ImportPack(archive) ==
    /\ IF ~archive.readable \/ ~IsSome(archive.pdsc)
       THEN /\ outdated' = [outdated EXCEPT !.last = "import", !.name = "", !.ok = FALSE]
            /\ UNCHANGED store
       ELSE LET name == Unwrap(archive.pdsc).name
                old == IF name \in DOMAIN store THEN store[name]
                       ELSE [yaml |-> None, devices |-> <<>>, flm_files |-> <<>>,
                             scan_report |-> None]
                Written(f) == \E i \in 1..Len(archive.flm_files) :
                                  archive.flm_files[i].file_name = f.file_name
                Kept(files) ==
                    LET RECURSIVE Keep(_)
                        Keep(n) == IF n = 0 THEN <<>>
                                   ELSE IF Written(files[n]) THEN Keep(n - 1)
                                   ELSE Append(Keep(n - 1), files[n])
                    IN  Keep(Len(files))
            IN  /\ store' = [p \in DOMAIN store \cup {name} |->
                                 IF p = name
                                 THEN [old EXCEPT !.devices = Unwrap(archive.pdsc).devices,
                                                  !.flm_files = Kept(old.flm_files)
                                                                    \o archive.flm_files]
                                 ELSE store[p]]
                /\ outdated' = [outdated EXCEPT !.last = "import", !.name = name, !.ok = TRUE]
    /\ UNCHANGED <<nonPackVars, legacy, flm, algo, pack, yaml, rescan, report>>

\* The imported packs considered: targets.yaml missing, without a marker
\* line, with an older marker, or with the current one.
StoreInputs ==
    LET Marked(v) == <<VersionMarker \o <<" ">> \o v, <<"n", "a", "m", "e", ":", " ", "p">>>>
        yamls == {None,
                  Some(<<<<"n", "a", "m", "e", ":", " ", "p">>>>),
                  Some(Marked(<<"1", ".", "0", ".", "0">>)),
                  Some(Marked(PACK_SCANNER_VERSION))}
        Devices(packs) == {<<>>} \cup {p.devices : p \in {q \in packs :
                                           /\ Len(q.devices) = 1
                                           /\ q.devices[1].name[1] = "a"
                                           /\ q.devices[1].flash_size = 8192
                                           /\ q.devices[1].ram_start = MainSramStart}}
        FlmFiles(packs) == {p.flm_files : p \in {q \in packs : Len(q.flm_files) <= 1}}
    IN  LetIn(PackInputs, LAMBDA packs :
        LetIn([yaml : yamls, devices : Devices(packs), flm_files : FlmFiles(packs),
               scan_report : {None}],
              LAMBDA dirs : [{"p1", "p2"} -> dirs]))

\* C20 as stated: check_outdated_packs lists a pack exactly when its
\* targets.yaml is missing or carries a version marker other than the
\* current version; after a successful rescan_pack the pack's marker is the
\* current version and the pack is not listed any more.
C20_ListedExactlyWhenMissingOrOtherVersion ==
    LET Carries(p, v) == /\ IsSome(store[p].yaml)
                         /\ \E i \in 1..Len(Unwrap(store[p].yaml)) :
                                Unwrap(store[p].yaml)[i] = VersionMarker \o <<" ">> \o v
        Versions == {<<"1", ".", "0", ".", "0">>, PACK_SCANNER_VERSION}
    IN  /\ outdated.last = "check" =>
               outdated.listed =
                   {p \in DOMAIN store :
                       \/ ~IsSome(store[p].yaml)
                       \/ \E v \in Versions : v # PACK_SCANNER_VERSION /\ Carries(p, v)}
        /\ (outdated.last = "rescan" /\ outdated.ok) =>
               /\ Carries(outdated.name, PACK_SCANNER_VERSION)
               /\ ~NeedsRescan(store[outdated.name])

\* C20 amended: check_outdated_packs lists a pack exactly when its
\* targets.yaml is missing, has no version marker line, or carries a
\* version marker other than the current version; after a successful
\* rescan_pack the first line of the pack's targets.yaml is the marker of
\* the current version and the pack is not listed any more.
C20_ListedExactlyWhenNoCurrentMarker ==
    LET Carries(p, v) == /\ IsSome(store[p].yaml)
                         /\ \E i \in 1..Len(Unwrap(store[p].yaml)) :
                                Unwrap(store[p].yaml)[i] = VersionMarker \o <<" ">> \o v
    IN  /\ outdated.last = "check" =>
               outdated.listed =
                   {p \in DOMAIN store : ~Carries(p, PACK_SCANNER_VERSION)}
        /\ (outdated.last = "rescan" /\ outdated.ok) =>
               /\ Unwrap(store[outdated.name].yaml)[1]
                      = VersionMarker \o <<" ">> \o PACK_SCANNER_VERSION
               /\ ~NeedsRescan(store[outdated.name])

\* A pack that check_outdated_packs listed has been rescanned with success.
C20_Witness ==
    /\ outdated.last = "rescan"
    /\ outdated.ok
    /\ outdated.name \in outdated.listed

\* C22: import_pack fails when a pack of the archive's name is in the pack
\* store and then leaves that pack's files as they were; it fails and
\* creates no pack directory when the archive is unreadable or has no PDSC.
C22_ImportFailsOnExistingName ==
    [][\A archive \in PackArchives :
           ImportPack(archive) =>
               /\ (/\ archive.readable
                   /\ IsSome(archive.pdsc)
                   /\ Unwrap(archive.pdsc).name \in DOMAIN store) =>
                      /\ ~outdated'.ok
                      /\ store'[Unwrap(archive.pdsc).name] = store[Unwrap(archive.pdsc).name]
               /\ (~archive.readable \/ ~IsSome(archive.pdsc)) =>
                      /\ ~outdated'.ok
                      /\ DOMAIN store' = DOMAIN store]_vars

(***************************************************************************)
(* Migration of the legacy pack directory (pack/manager.rs), on Linux with *)
(* a pack store that is not the legacy directory.                          *)
(***************************************************************************)

MaxMigrations == 2

\* PackManager::new: migrate_legacy_packs copies every pack directory of
\* the legacy directory that the store has no directory for.
PackManagerNew ==
    LET missing == {p \in DOMAIN legacy.dir : p \notin DOMAIN store}
    IN  /\ \A p \in missing : legacy.copies[p] < MaxMigrations
        /\ store' = [p \in DOMAIN store \cup missing |->
                         IF p \in DOMAIN store THEN store[p] ELSE legacy.dir[p]]
        /\ legacy' = [legacy EXCEPT !.copies = [p \in DOMAIN legacy.dir |->
                                       IF p \in missing THEN @[p] + 1 ELSE @[p]]]
        /\ outdated' = [outdated EXCEPT !.last = "new", !.ok = TRUE]
        /\ UNCHANGED <<nonPackVars, flm, algo, pack, yaml, rescan, report>>

\* PackManager::list_packs of a manager that PackManager::new returned
ListPacks ==
    /\ outdated.last # "none"
    /\ outdated' = [outdated EXCEPT !.last = "list", !.listed = DOMAIN store, !.ok = TRUE]
    /\ UNCHANGED <<nonPackVars, legacy, flm, algo, pack, yaml, rescan, report, store>>

\* PackManager::delete_pack
DeletePack ==
    \E pack_name \in {"p1", "p2", "p3"} :
        /\ outdated.last # "none"
        /\ IF pack_name \notin DOMAIN store
           THEN /\ outdated' = [outdated EXCEPT !.last = "delete", !.name = pack_name,
                                                !.ok = FALSE]
                /\ UNCHANGED <<store, legacy>>
           ELSE /\ store' = [p \in DOMAIN store \ {pack_name} |-> store[p]]
                /\ legacy' = IF pack_name \in DOMAIN legacy.dir /\ legacy.copies[pack_name] > 0
                             THEN [legacy EXCEPT !.deleted = @ \cup {pack_name}]
                             ELSE legacy
                /\ outdated' = [outdated EXCEPT !.last = "delete", !.name = pack_name,
                                                !.ok = TRUE]
        /\ UNCHANGED <<nonPackVars, flm, algo, pack, yaml, rescan, report>>

\* C35: each legacy pack is copied into the pack store at most once, and a
\* pack that was migrated and then deleted is not in the list of a later
\* list_packs.
C35_LegacyPackMigratedOnce ==
    /\ \A p \in DOMAIN legacy.dir : legacy.copies[p] <= 1
    /\ outdated.last = "list" => outdated.listed \cap legacy.deleted = {}

(***************************************************************************)
(* Probe enumeration (commands/probe.rs).                                  *)
(***************************************************************************)

\* build_probe_id: format!("{:04x}:{:04x}:{}", vendor_id, product_id, serial)
BuildProbeId(vendor_id, product_id, serial_number) ==
    LET digits == <<"0", "1", "2", "3", "4", "5", "6", "7", "8", "9",
                    "a", "b", "c", "d", "e", "f">>
        Hex4(n) == <<digits[((n \div 4096) % 16) + 1], digits[((n \div 256) % 16) + 1],
                     digits[((n \div 16) % 16) + 1], digits[(n % 16) + 1]>>
    IN  Hex4(vendor_id) \o <<":">> \o Hex4(product_id) \o <<":">>
            \o UnwrapOr(serial_number, <<>>)

\* list_probes
ListProbes ==
    LET
        \* match_caps_for_probe
        MatchCapsForProbe(probe, caps) ==
            LET NonEmpty(s) == IF IsSome(s) /\ Unwrap(s) # <<>> THEN s ELSE None
                probe_serial == NonEmpty(probe.serial_number)
                SameDevice(c) == c.vendor_id = probe.vendor_id /\ c.product_id = probe.product_id
                direct == {i \in 1..Len(caps) :
                              SameDevice(caps[i]) /\ NonEmpty(caps[i].serial_number) = probe_serial}
                same == {i \in 1..Len(caps) : SameDevice(caps[i])}
                First(S) == caps[CHOOSE i \in S : \A j \in S : i <= j]
            IN  IF direct # {} THEN Some(First(direct))
                ELSE IF probe_serial = None /\ same # {} THEN Some(First(same))
                ELSE None
    IN
    /\ probe_infos = None
    /\ LET Contains(s, sub) ==
               \E i \in 0..(Len(s) - Len(sub)) : SubSeq(s, i + 1, i + Len(sub)) = sub
           Entry(p, probe_type, dap_version) ==
               [probe_id |-> BuildProbeId(p.vendor_id, p.product_id, p.serial_number),
                identifier |-> p.identifier, vendor_id |-> p.vendor_id,
                product_id |-> p.product_id, serial_number |-> p.serial_number,
                probe_type |-> probe_type, dap_version |-> dap_version]
           ProbeInfoOf(p) ==
               LetIn(MatchCapsForProbe(p, probes.caps), LAMBDA matched_caps :
                   IF IsSome(matched_caps)
                   THEN LET cap == Unwrap(matched_caps)
                        IN  IF cap.has_hid /\ cap.has_v2
                            THEN Entry(p, <<"C", "m", "s", "i", "s", "D", "a", "p">>,
                                       Some("DAPv1+v2 (HID/WinUSB)"))
                            ELSE IF cap.has_v2
                            THEN Entry(p, <<"C", "m", "s", "i", "s", "D", "a", "p", "V", "2">>,
                                       Some("DAPv2 (WinUSB)"))
                            ELSE IF cap.has_hid
                            THEN Entry(p, <<"C", "m", "s", "i", "s", "D", "a", "p">>,
                                       Some("DAPv1 (HID)"))
                            ELSE Entry(p, p.probe_type, None)
                   ELSE LetIn(ToUppercase(p.probe_type), LAMBDA probe_type_upper :
                            Entry(p, p.probe_type,
                                  IF \/ Contains(probe_type_upper, <<"C", "M", "S", "I", "S">>)
                                     \/ Contains(probe_type_upper, <<"D", "A", "P">>)
                                  THEN IF Contains(probe_type_upper, <<"V", "2">>)
                                       THEN Some("DAPv2 (WinUSB)")
                                       ELSE Some("DAPv1 (HID)")
                                  ELSE None)))
       IN  probe_infos' = Some([i \in 1..Len(probes.listed) |-> ProbeInfoOf(probes.listed[i])])
    /\ UNCHANGED <<nonIoVars, mem_result, probes, serial, lockVars>>

\* C25: list_probes returns no two entries with the same stable id: each
\* probe attached has exactly one entry, also when probe-rs lists it more
\* than once, and the entry of a probe with both interfaces is the one
\* marked as supporting both.
C25_OneEntryPerStableId ==
    IsSome(probe_infos) =>
        LET infos == Unwrap(probe_infos)
        IN  /\ \A i, j \in 1..Len(infos) : infos[i].probe_id = infos[j].probe_id => i = j
            /\ \A k \in 1..Len(probes.caps) :
                   LET cap == probes.caps[k]
                       entries == {i \in 1..Len(infos) :
                                      infos[i].probe_id = BuildProbeId(cap.vendor_id,
                                                              cap.product_id, cap.serial_number)}
                   IN  /\ Cardinality(entries) = 1
                       /\ (cap.has_hid /\ cap.has_v2) =>
                              \A i \in entries :
                                  infos[i].dap_version = Some("DAPv1+v2 (HID/WinUSB)")

(***************************************************************************)
(* Terminal data plane (serial/local.rs, serial/tcp.rs).                   *)
(***************************************************************************)

\* Calls made on one data source in a behaviour.
MaxCalls == 4

\* SerialStats::default()
SerialStatsDefault == [bytes_received |-> 0, bytes_sent |-> 0]

\* LocalSerial::new / TcpSerial::new: no port or stream yet. "calls" is the
\* history of the calls made on the data source with what each returned.
SerialNew(kind) ==
    [kind |-> kind, connected |-> FALSE, stats |-> SerialStatsDefault, calls |-> <<>>]

\* One more call in the history: its name, whether it found the port or
\* stream open, whether it returned Ok, the count in Ok(count).
Called(s, op, ok, count) ==
    [s EXCEPT !.calls = Append(@, [op |-> op, connected |-> s.connected, ok |-> ok,
                                    count |-> count])]

\* DataSource::connect: Ok at once when the port or stream is open;
\* otherwise the port or stream is opened and the counters start again, or
\* opening fails.
SerialConnect ==
    /\ Len(serial.calls) < MaxCalls
    /\ \E opens \in BOOLEAN :
           serial' = IF serial.connected THEN Called(serial, "connect", TRUE, 0)
                     ELSE IF opens
                     THEN [Called(serial, "connect", TRUE, 0)
                               EXCEPT !.connected = TRUE, !.stats = SerialStatsDefault]
                     ELSE Called(serial, "connect", FALSE, 0)
    /\ UNCHANGED <<nonIoVars, mem_result, probes, probe_infos, lockVars>>

\* DataSource::disconnect
SerialDisconnect ==
    /\ Len(serial.calls) < MaxCalls
    /\ serial' = [Called(serial, "disconnect", TRUE, 0) EXCEPT !.connected = FALSE]
    /\ UNCHANGED <<nonIoVars, mem_result, probes, probe_infos, lockVars>>

SerialWriteCountsFailed ==
    /\ Len(serial.calls) < MaxCalls
    /\ \E data \in {<<65>>, <<65, 84, 13, 10>>}, fails \in BOOLEAN :
         \E n \in {1, Len(data)} :
           LET written == IF serial.kind = "tcp" THEN n ELSE Len(data)
           IN  serial' = IF ~serial.connected \/ fails
                         THEN [Called(serial, "write", FALSE, 0)
                                   EXCEPT !.stats.bytes_sent = @ + Len(data)]
                         ELSE [Called(serial, "write", TRUE, written)
                                   EXCEPT !.stats.bytes_sent = @ + written]
    /\ UNCHANGED <<nonIoVars, mem_result, probes, probe_infos, lockVars>>

\* DataSource::write. LocalSerial: write_all and flush, then the counter
\* grows by data.len(). TcpSerial: one stream.write, which may take only
\* the first bytes; the counter grows by what it returned.
SerialWrite ==
    /\ Len(serial.calls) < MaxCalls
    /\ \E data \in {<<65>>, <<65, 84, 13, 10>>}, fails \in BOOLEAN :
         \E n \in {1, Len(data)} :
           LET written == IF serial.kind = "tcp" THEN n ELSE Len(data)
           IN  serial' = IF ~serial.connected \/ fails
                         THEN Called(serial, "write", FALSE, 0)
                         ELSE [Called(serial, "write", TRUE, written)
                                   EXCEPT !.stats.bytes_sent = @ + written]
    /\ UNCHANGED <<nonIoVars, mem_result, probes, probe_infos, lockVars>>

\* DataSource::read: n bytes arrive, or the read times out (Ok(0)), or it
\* fails. TcpSerial: a read of 0 bytes means the peer closed the
\* connection and is an error.
SerialRead ==
    /\ Len(serial.calls) < MaxCalls
    /\ \E outcome \in {"data", "timeout", "error"}, n \in {0, 1, 4} :
           serial' = IF ~serial.connected \/ outcome = "error"
                        \/ (outcome = "data" /\ n = 0 /\ serial.kind = "tcp")
                     THEN Called(serial, "read", FALSE, 0)
                     ELSE IF outcome = "timeout" THEN Called(serial, "read", TRUE, 0)
                     ELSE [Called(serial, "read", TRUE, n)
                               EXCEPT !.stats.bytes_received = @ + n]
    /\ UNCHANGED <<nonIoVars, mem_result, probes, probe_infos, lockVars>>

\* DataSource::reset_stats
SerialResetStats ==
    /\ Len(serial.calls) < MaxCalls
    /\ serial' = [Called(serial, "reset_stats", TRUE, 0) EXCEPT !.stats = SerialStatsDefault]
    /\ UNCHANGED <<nonIoVars, mem_result, probes, probe_infos, lockVars>>

(***************************************************************************)
(* Terminal commands and the serial polling task (commands/serial.rs).     *)
(* Here serial is SerialState with what the tasks emitted: datasource is   *)
(* None or Some data source, id numbers the connect_serial call that made  *)
(* it and connected is its is_connected(); the bytes that arrive are       *)
(* numbered 1, 2, ... in the order they are read; tasks are the polling    *)
(* tasks spawned so far.                                                   *)
(***************************************************************************)

\* connect_serial calls in a behaviour.
MaxConnects == 2

\* Polling tasks spawned in a behaviour.
MaxSerialTasks == 2

\* Bytes that arrive in a behaviour.
MaxSerialBytes == 3

\* connect_serial: polling is told to stop, the old data source is dropped,
\* the new one is stored when it connects.
ConnectSerial ==
    /\ DOMAIN serial = {"datasource", "running", "connects", "received", "tasks",
                        "data_events", "status_events"}
    /\ serial.connects < MaxConnects
    /\ \E opens \in BOOLEAN :
           serial' = [serial EXCEPT
                          !.running = FALSE,
                          !.connects = @ + 1,
                          !.datasource = IF opens
                                         THEN Some([id |-> serial.connects + 1, connected |-> TRUE])
                                         ELSE None]
    /\ UNCHANGED <<nonIoVars, mem_result, probes, probe_infos, lockVars>>

\* disconnect_serial
DisconnectSerial ==
    /\ serial.connects > 0
    /\ serial' = [serial EXCEPT !.running = FALSE, !.datasource = None]
    /\ UNCHANGED <<nonIoVars, mem_result, probes, probe_infos, lockVars>>

\* start_serial: Ok at once when polling runs, Err without a connected data
\* source; otherwise the flag is set and a polling task is spawned.
StartSerial ==
    /\ serial.connects > 0
    /\ Len(serial.tasks) < MaxSerialTasks
    /\ serial' = IF serial.running THEN serial
                 ELSE IF ~(IsSome(serial.datasource) /\ Unwrap(serial.datasource).connected)
                 THEN serial
                 ELSE [serial EXCEPT
                           !.running = TRUE,
                           !.tasks = Append(@, [pc |-> "tick", batch_buffer |-> <<>>,
                                                failed |-> None])]
    /\ UNCHANGED <<nonIoVars, mem_result, probes, probe_infos, lockVars>>

\* stop_serial
StopSerial ==
    /\ serial.connects > 0
    /\ serial' = [serial EXCEPT !.running = FALSE]
    /\ UNCHANGED <<nonIoVars, mem_result, probes, probe_infos, lockVars>>

\* One tick of polling task i.  With the flag off it leaves the loop, emits
\* what is left in its buffer and the final status.  With the flag on it
\* reads until a read returns no data: one byte arrives or none, or the
\* read fails (no data source, or DataSource::read returns Err, which
\* leaves the port or stream in place); a failed read clears the flag and
\* emits a status with the error.  The buffer is emitted at 4096 bytes or
\* when BATCH_TIMEOUT_MS (10 ms here) have passed since the last emit.
SerialPollingTask(i) ==
    /\ DOMAIN serial = {"datasource", "running", "connects", "received", "tasks",
                        "data_events", "status_events"}
    /\ i \in 1..Len(serial.tasks)
    /\ serial.tasks[i].pc = "tick"
    /\ LET me == serial.tasks[i]
           is_connected == IsSome(serial.datasource) /\ Unwrap(serial.datasource).connected
       IN  IF ~serial.running
           THEN serial' = [serial EXCEPT
                               !.tasks[i] = [me EXCEPT !.pc = "done", !.batch_buffer = <<>>],
                               !.data_events = IF me.batch_buffer # <<>>
                                               THEN Append(@, me.batch_buffer) ELSE @,
                               !.status_events =
                                   Append(@, [task |-> i, connected |-> is_connected,
                                              running |-> FALSE, error |-> None])]
           ELSE \E outcome \in {"data", "none", "error"}, timed_out \in BOOLEAN :
                    LET fails == ~IsSome(serial.datasource) \/ outcome = "error"
                        n == IF ~fails /\ outcome = "data" THEN 1 ELSE 0
                        buffer == IF n = 1 THEN Append(me.batch_buffer, serial.received + 1)
                                  ELSE me.batch_buffer
                        flush == buffer # <<>> /\ (Len(buffer) >= 4096 \/ timed_out)
                    IN  /\ serial.received + n <= MaxSerialBytes
                        /\ serial' = [serial EXCEPT
                               !.received = @ + n,
                               !.running = IF fails THEN FALSE ELSE @,
                               !.tasks[i] = [me EXCEPT
                                   !.batch_buffer = IF flush THEN <<>> ELSE buffer,
                                   !.failed = IF fails
                                              THEN Some(IF IsSome(serial.datasource)
                                                        THEN Unwrap(serial.datasource).id ELSE 0)
                                              ELSE @],
                               !.data_events = IF flush THEN Append(@, buffer) ELSE @,
                               !.status_events =
                                   IF fails
                                   THEN Append(@, [task |-> i, connected |-> FALSE,
                                                   running |-> FALSE, error |-> Some("read")])
                                   ELSE @]
    /\ UNCHANGED <<nonIoVars, mem_result, probes, probe_infos, lockVars>>

\* get_serial_status
GetSerialStatus ==
    [connected |-> IsSome(serial.datasource) /\ Unwrap(serial.datasource).connected,
     running |-> serial.running]

\* C39: at most one serial polling task is alive and polling, and the
\* bytes the serial-data events carry are the bytes read, each once and in
\* the order they were read.
C39_OneSerialPollingTask ==
    ("tasks" \in DOMAIN serial) =>
        LET RECURSIVE Flatten(_)
            Flatten(events) == IF events = <<>> THEN <<>>
                               ELSE Head(events) \o Flatten(Tail(events))
            emitted == Flatten(serial.data_events)
        IN  /\ serial.running =>
                   Cardinality({i \in 1..Len(serial.tasks) : serial.tasks[i].pc = "tick"}) <= 1
            /\ \A a, b \in 1..Len(emitted) : a < b => emitted[a] < emitted[b]

\* C40: a polling task that stopped because a read failed ends with a
\* serial-status event that carries the error and reports connected =
\* false, and get_serial_status reports connected = false as long as the
\* data source whose read failed is the one in place.
C40_ReadErrorReportsDisconnected ==
    ("tasks" \in DOMAIN serial) =>
        \A i \in 1..Len(serial.tasks) :
            (serial.tasks[i].pc = "done" /\ IsSome(serial.tasks[i].failed)) =>
                LET mine == SelectSeq(serial.status_events, LAMBDA e : e.task = i)
                    last == mine[Len(mine)]
                IN  /\ ~last.connected
                    /\ IsSome(last.error)
                    /\ (IsSome(serial.datasource)
                          /\ Unwrap(serial.datasource).id = Unwrap(serial.tasks[i].failed)) =>
                              ~GetSerialStatus.connected

\* The sum of the counts the successful calls of "op" returned after the
\* last of the calls whose positions in the history are "starts".
ReturnedSince(calls, op, starts) ==
    LET from == IF starts = {} THEN 0 ELSE CHOOSE i \in starts : \A j \in starts : j <= i
        RECURSIVE Sum(_)
        Sum(i) == IF i <= from THEN 0
                  ELSE Sum(i - 1) + (IF calls[i].op = op /\ calls[i].ok THEN calls[i].count ELSE 0)
    IN  Sum(Len(calls))

\* C26 as stated: the counters are the sums of the counts returned by the
\* successful writes and reads since the last connect that returned Ok or
\* reset_stats, a failed call changes neither, and a write that returns 4
\* right after connect gives bytes_sent = 4.
C26_CountersSinceLastConnect ==
    LET n == Len(serial.calls)
        starts == {i \in 1..n : serial.calls[i].ok
                                   /\ serial.calls[i].op \in {"connect", "reset_stats"}}
    IN  /\ serial.stats.bytes_sent = ReturnedSince(serial.calls, "write", starts)
        /\ serial.stats.bytes_received = ReturnedSince(serial.calls, "read", starts)
        /\ (/\ n >= 2 /\ serial.calls[n].op = "write" /\ serial.calls[n].ok
             /\ serial.calls[n].count = 4
             /\ serial.calls[n - 1].op = "connect" /\ serial.calls[n - 1].ok)
               => serial.stats.bytes_sent = 4

\* C26 amended: the counters are the sums of the counts returned by the
\* successful writes and reads since the last connect that opened the port
\* or stream (a connect on a source that is already connected returns Ok
\* and leaves the counters) or reset_stats; a failed write or read changes
\* neither counter; a write that returns 4 right after the connect that
\* opened the source gives bytes_sent = 4.
C26_CountersSinceLastOpen ==
    LET n == Len(serial.calls)
        Opened(c) == c.op = "connect" /\ ~c.connected
        starts == {i \in 1..n : serial.calls[i].ok
                                   /\ (Opened(serial.calls[i])
                                         \/ serial.calls[i].op = "reset_stats")}
    IN  /\ serial.stats.bytes_sent = ReturnedSince(serial.calls, "write", starts)
        /\ serial.stats.bytes_received = ReturnedSince(serial.calls, "read", starts)
        /\ (/\ n >= 2 /\ serial.calls[n].op = "write" /\ serial.calls[n].ok
             /\ serial.calls[n].count = 4
             /\ serial.calls[n - 1].op = "connect" /\ serial.calls[n - 1].ok
             /\ ~serial.calls[n - 1].connected)
               => serial.stats.bytes_sent = 4

\* A connect opened the source, 4 bytes were written, a write failed, a
\* second connect returned Ok at once.
C26_Witness ==
    /\ Len(serial.calls) = 4
    /\ serial.calls[1].op = "connect" /\ serial.calls[1].ok
    /\ serial.calls[2].op = "write" /\ serial.calls[2].ok /\ serial.calls[2].count = 4
    /\ serial.calls[3].op = "write" /\ ~serial.calls[3].ok
    /\ serial.calls[4].op = "connect" /\ serial.calls[4].ok
    /\ serial.stats.bytes_sent = 4

(***************************************************************************)
(* The mutexes of AppState and the order in which the commands and the     *)
(* RTT polling task take them (commands/probe.rs, flash.rs, memory.rs,     *)
(* rtt.rs).                                                                *)
(***************************************************************************)

\* Threads that run commands at the same time.
MaxThreads == 2

\* AppState: session, rtt_session, connection_info, rtt_connection_info
Locks == {"session", "rtt_session", "connection_info", "rtt_connection_info"}

\* The RTT polling task and the threads that run commands.
PollingTask == 0

Threads == {PollingTask} \cup (1..MaxThreads)

ThreadIdle == [cmd |-> "none", pc |-> 0]

LockProgramInfoFirst(cmd) ==
    LET lock(l) == [op |-> "lock", lock |-> l]
        try_lock_for(l) == [op |-> "try_lock_for", lock |-> l]
        drop(l) == [op |-> "drop", lock |-> l]
        Scope(l) == <<lock(l), drop(l)>>
    IN  CASE cmd = "connect_target" ->
                 Scope("session") \o Scope("connection_info") \o Scope("session")
          [] cmd = "connect_rtt" ->
                 Scope("rtt_session") \o Scope("rtt_connection_info") \o Scope("rtt_session")
          [] cmd = "disconnect" ->
                 <<lock("connection_info"), lock("session"), drop("session"),
                   drop("connection_info")>>
          [] cmd = "disconnect_rtt" -> Scope("rtt_session") \o Scope("rtt_connection_info")
          [] cmd = "get_connection_status" ->
                 <<lock("session"), lock("connection_info"), drop("connection_info"),
                   drop("session")>>
          [] cmd = "get_rtt_connection_status" ->
                 <<lock("rtt_session"), lock("rtt_connection_info"),
                   drop("rtt_connection_info"), drop("rtt_session")>>
          [] cmd \in {"flash_firmware", "read_memory"} -> Scope("session")
          [] cmd \in {"start_rtt", "write_rtt"} -> Scope("rtt_session")
          [] cmd = "poll_rtt_once" -> <<try_lock_for("rtt_session"), drop("rtt_session")>>

\* The lock operations of a command in program order: lock() waits for the
\* mutex, try_lock_for() gives up after 500 ms, a guard is dropped at the
\* end of its scope. flash_firmware stands for the commands of flash.rs,
\* read_memory for those of memory.rs: one guard of the Main slot each.
LockProgram(cmd) ==
    LET lock(l) == [op |-> "lock", lock |-> l]
        try_lock_for(l) == [op |-> "try_lock_for", lock |-> l]
        drop(l) == [op |-> "drop", lock |-> l]
        Scope(l) == <<lock(l), drop(l)>>
    IN  CASE cmd = "connect_target" ->
                 Scope("session") \o Scope("connection_info") \o Scope("session")
          [] cmd = "connect_rtt" ->
                 Scope("rtt_session") \o Scope("rtt_connection_info") \o Scope("rtt_session")
          [] cmd = "disconnect" -> Scope("session") \o Scope("connection_info")
          [] cmd = "disconnect_rtt" -> Scope("rtt_session") \o Scope("rtt_connection_info")
          [] cmd = "get_connection_status" ->
                 <<lock("session"), lock("connection_info"), drop("connection_info"),
                   drop("session")>>
          [] cmd = "get_rtt_connection_status" ->
                 <<lock("rtt_session"), lock("rtt_connection_info"),
                   drop("rtt_connection_info"), drop("rtt_session")>>
          [] cmd \in {"flash_firmware", "read_memory"} -> Scope("session")
          [] cmd \in {"start_rtt", "write_rtt"} -> Scope("rtt_session")
          [] cmd = "poll_rtt_once" -> <<try_lock_for("rtt_session"), drop("rtt_session")>>

\* The next lock operation of a running thread.
NextOp(t) == LockProgram(threads[t].cmd)[threads[t].pc]

\* The thread after its next operation: idle after the last one.
Advance(t) ==
    IF threads[t].pc = Len(LockProgram(threads[t].cmd)) THEN ThreadIdle
    ELSE [threads[t] EXCEPT !.pc = @ + 1]

\* A command is invoked on a thread, or the polling task starts a tick.
CallCommand(t) ==
    LET
        \* The commands a thread may run: the polling task runs poll_rtt_once.
        CommandsOf(thread) ==
            IF thread = PollingTask THEN {"poll_rtt_once"}
            ELSE {"connect_target", "connect_rtt", "disconnect", "disconnect_rtt",
                  "get_connection_status", "get_rtt_connection_status", "flash_firmware",
                  "read_memory", "start_rtt", "write_rtt"}
    IN
    /\ threads[t] = ThreadIdle
    /\ \E cmd \in CommandsOf(t) : threads' = [threads EXCEPT ![t] = [cmd |-> cmd, pc |-> 1]]
    /\ UNCHANGED <<nonIoVars, mem_result, probes, probe_infos, serial, lock_owner>>

\* Mutex::lock returns the guard: the mutex was free.
LockAcquire(t) ==
    /\ threads[t] # ThreadIdle
    /\ NextOp(t).op \in {"lock", "try_lock_for"}
    /\ lock_owner[NextOp(t).lock] = None
    /\ lock_owner' = [lock_owner EXCEPT ![NextOp(t).lock] = Some(t)]
    /\ threads' = [threads EXCEPT ![t] = Advance(t)]
    /\ UNCHANGED <<nonIoVars, mem_result, probes, probe_infos, serial>>

\* try_lock_for returns None after 500 ms: the tick ends without a guard.
TryLockTimesOut(t) ==
    /\ threads[t] # ThreadIdle
    /\ NextOp(t).op = "try_lock_for"
    /\ lock_owner[NextOp(t).lock] # None
    /\ threads' = [threads EXCEPT ![t] = ThreadIdle]
    /\ UNCHANGED <<nonIoVars, mem_result, probes, probe_infos, serial, lock_owner>>

\* The guard goes out of scope.
GuardDrop(t) ==
    /\ threads[t] # ThreadIdle
    /\ NextOp(t).op = "drop"
    /\ lock_owner' = [lock_owner EXCEPT ![NextOp(t).lock] = None]
    /\ threads' = [threads EXCEPT ![t] = Advance(t)]
    /\ UNCHANGED <<nonIoVars, mem_result, probes, probe_infos, serial>>

\* The command returns an error with `?`: every guard it holds is dropped.
ReturnEarly(t) ==
    /\ threads[t] # ThreadIdle
    /\ t # PollingTask
    /\ lock_owner' = [l \in Locks |-> IF lock_owner[l] = Some(t) THEN None ELSE lock_owner[l]]
    /\ threads' = [threads EXCEPT ![t] = ThreadIdle]
    /\ UNCHANGED <<nonIoVars, mem_result, probes, probe_infos, serial>>

\* The thread is inside Mutex::lock on a mutex another guard holds.
Waiting(t) ==
    /\ threads[t] # ThreadIdle
    /\ NextOp(t).op = "lock"
    /\ lock_owner[NextOp(t).lock] # None

\* C30: no thread holds the guards of the Main slot and of the RTT slot at
\* the same time, and there is no deadlock: no set of threads in which
\* every thread waits for a mutex held by a thread of the set.
C30_SlotLocksApartAndNoDeadlock ==
    /\ ~(IsSome(lock_owner["session"]) /\ lock_owner["session"] = lock_owner["rtt_session"])
    /\ \A W \in (SUBSET Threads) \ {{}} :
           \E t \in W : ~(Waiting(t) /\ Unwrap(lock_owner[NextOp(t).lock]) \in W)

\* get_connection_status holds the Main slot and waits for connection_info,
\* which a disconnect holds, while the polling task holds the RTT slot.
C30_Witness ==
    \E t, u \in 1..MaxThreads :
        /\ threads[t].cmd = "get_connection_status" /\ Waiting(t)
        /\ lock_owner["session"] = Some(t)
        /\ threads[u].cmd = "disconnect" /\ lock_owner["connection_info"] = Some(u)
        /\ lock_owner["rtt_session"] = Some(PollingTask)

(***************************************************************************)
(* Specifications.                                                         *)
(***************************************************************************)

\* The variables outside the sessions before the operation named: the
\* arguments of "extract", of "generate" (the YAML document or the scan
\* report), the imported packs of "store", the probes attached of "list",
\* a new data source of "serial"; "none": no such operation, no pack
\* imported, no probe attached.
PackStartsWith(operation) ==
    LET
        \* The probes attached: one or two CMSIS-DAP probes with different serial
        \* numbers (one may have none), each with an HID interface, a WinUSB
        \* interface, both or neither; probe-rs lists a probe once, or once per
        \* interface when it has both.
        ProbeInputs ==
            LET Physical == [serial_number : {None, Some(<<"A">>)}, has_hid : BOOLEAN,
                             has_v2 : BOOLEAN, times : 1..2]
                Attached == {a \in UNION {[1..n -> Physical] : n \in 1..2} :
                                /\ \A i \in 1..Len(a) : a[i].times = 2 => a[i].has_hid /\ a[i].has_v2
                                /\ \A i, j \in 1..Len(a) :
                                       a[i].serial_number = a[j].serial_number => i = j}
                Cap(p) == [vendor_id |-> 3368, product_id |-> 516, serial_number |-> p.serial_number,
                           has_hid |-> p.has_hid, has_v2 |-> p.has_v2]
                Info(p) == [identifier |-> <<"D", "A", "P">>, vendor_id |-> 3368, product_id |-> 516,
                            serial_number |-> p.serial_number,
                            probe_type |-> <<"C", "m", "s", "i", "s", "D", "a", "p">>]
                RECURSIVE Listed(_, _)
                Listed(a, n) == IF n = 0 THEN <<>>
                                ELSE Listed(a, n - 1) \o [k \in 1..a[n].times |-> Info(a[n])]
            IN  {[caps |-> [i \in 1..Len(a) |-> Cap(a[i])], listed |-> Listed(a, Len(a))] :
                    a \in Attached}
    IN
    /\ flm \in IF operation = "extract" THEN FlmInputs ELSE {CHOOSE f \in FlmInputs : TRUE}
    /\ algo = None
    /\ pack \in IF operation = "generate" THEN PackInputs
                 ELSE {[devices |-> <<>>, flm_files |-> <<>>]}
    /\ yaml = None
    /\ rescan = None
    /\ report = None
    /\ store \in IF operation = "store" THEN StoreInputs
                  ELSE IF operation = "migrate"
                  THEN {<<>>} \cup {[p \in {"p2"} |-> d[p]] : d \in StoreInputs}
                  ELSE {<<>>}
    /\ outdated = [last |-> "none", listed |-> {}, name |-> "", ok |-> FALSE]
    /\ legacy \in IF operation = "migrate"
                   THEN {[dir |-> [p \in names |-> (CHOOSE d \in StoreInputs : TRUE)[p]],
                          copies |-> [p \in names |-> 0], deleted |-> {}] :
                            names \in {{"p1"}, {"p2"}, {"p1", "p2"}}}
                   ELSE {[dir |-> <<>>, copies |-> <<>>, deleted |-> {}]}
    /\ probes \in IF operation = "list" THEN ProbeInputs ELSE {[caps |-> <<>>, listed |-> <<>>]}
    /\ probe_infos = None
    /\ serial \in IF operation = "serial" THEN {SerialNew("local"), SerialNew("tcp")}
                   ELSE IF operation = "poll"
                   THEN {[datasource |-> None, running |-> FALSE, connects |-> 0,
                          received |-> 0, tasks |-> <<>>, data_events |-> <<>>,
                          status_events |-> <<>>]}
                   ELSE {SerialNew("local")}
    /\ mem_result = "none"
    /\ lock_owner = [l \in Locks |-> None]
    /\ threads = [t \in Threads |-> ThreadIdle]

\* AppState::new, and no command in progress.
SlotRest ==
    /\ rtt_session = None
    /\ connection_info = None
    /\ rtt_connection_info = None
    /\ conn = [slot \in {"main", "rtt"} |-> ConnIdle]
    /\ disc = [slot \in {"main", "rtt"} |-> "idle"]
    /\ released = None
    /\ next_id = 1

RttRest ==
    /\ rtt_options = [scan_mode |-> "exact", address |-> Some(DefaultRttAddress)]
    /\ rtt_state = RttStateDefault
    /\ start = StartIdle
    /\ task = TaskNone
    /\ rtt_status = <<>>
    /\ rtt_emitted = <<>>
    /\ rtt_produced = <<>>
    /\ rtt_unread = 0

FlashRest ==
    /\ session = None
    /\ file = [ext |-> "bin", exists |-> FALSE, data |-> Bytes(<<>>, 0, 0)]
    /\ chip = ErasedChip
    /\ fl = FlIdle
    /\ fl_ev = NoEvents
    /\ loader_left = 0
    /\ vf = VfIdle

\* A Main slot that is empty or was connected earlier, the firmware file
\* among files and a loader that reports budget events.
FlashStartsWith(files, budget) ==
    /\ PdscInit
    /\ PackStartsWith("none")
    /\ RttRest
    /\ session \in {None, Some([id |-> 1, nvm |-> Some(DefaultFlashStart)]),
                    Some([id |-> 1, nvm |-> None])}
    /\ rtt_session = None
    /\ connection_info = IF IsSome(session) THEN Some([id |-> Unwrap(session).id]) ELSE None
    /\ rtt_connection_info = None
    /\ conn = [slot \in {"main", "rtt"} |-> ConnIdle]
    /\ disc = [slot \in {"main", "rtt"} |-> "idle"]
    /\ released = None
    /\ next_id = 2
    /\ file \in files
    /\ chip = ErasedChip
    /\ fl = FlIdle
    /\ fl_ev = NoEvents
    /\ loader_left = budget
    /\ vf = VfIdle

FlashNext ==
    \/ FlashBegin
    \/ ProgressCallback
    \/ DownloadFails
    \/ DownloadSucceeds
    \/ FlashReset
    \/ FlashComplete
    \/ VerifyFirmware
    \/ CorruptFlashByte

\* An RTT slot connected earlier and a target that writes MaxEvents events.
RttInit(options, unread) ==
    /\ PdscInit
    /\ PackStartsWith("none")
    /\ FlashRest
    /\ rtt_session = Some([id |-> 1, nvm |-> Some(DefaultFlashStart)])
    /\ connection_info = None
    /\ rtt_connection_info = Some([id |-> 1])
    /\ conn = [slot \in {"main", "rtt"} |-> ConnIdle]
    /\ disc = [slot \in {"main", "rtt"} |-> "idle"]
    /\ released = None
    /\ next_id = 2
    /\ rtt_state = RttStateDefault
    /\ start = StartIdle
    /\ task = TaskNone
    /\ rtt_status = <<>>
    /\ rtt_emitted = <<>>
    /\ rtt_produced = <<>>
    /\ rtt_unread = unread
    /\ rtt_options \in options

\* AppState::new and a target that writes MaxEventsReplace events.
ReplaceInit ==
    /\ PdscInit
    /\ PackStartsWith("none")
    /\ FlashRest
    /\ SlotRest
    /\ rtt_state = RttStateDefault
    /\ start = StartIdle
    /\ task = TaskNone
    /\ rtt_status = <<>>
    /\ rtt_emitted = <<>>
    /\ rtt_produced = <<>>
    /\ rtt_unread = MaxEventsReplace
    /\ rtt_options = [scan_mode |-> "exact", address |-> Some(DefaultRttAddress)]

\* AppState::new and a parser about to read a document.
AppInit ==
    /\ PdscInit
    /\ PackStartsWith("none")
    /\ FlashRest
    /\ SlotRest
    /\ RttRest

\* The PDSC parser reading one document.
SpecPdsc == AppInit /\ [][ReadStart \/ ReadEmpty \/ ReadEnd \/ ReadEof]_vars

\* Flash programming of the two-byte .bin or a missing file, the loader
\* reporting MaxLoaderEvents events.
SpecFlash ==
    FlashStartsWith({f \in FirmwareFiles : f.data.len <= 2}, MaxLoaderEvents)
        /\ [][FlashNext]_vars

\* Programming and verification of every firmware file, the loader
\* reporting one event.
SpecVerify == FlashStartsWith(FirmwareFiles, 1) /\ [][FlashNext]_vars

\* Both slots connected, replaced and disconnected.
SpecSlots ==
    AppInit
        /\ [][\E slot \in {"main", "rtt"} :
                 \/ ConnectBegin(slot)
                 \/ ConnectFails(slot)
                 \/ ConnectStoreInfo(slot)
                 \/ ConnectStoreSession(slot)
                 \/ DisconnectRttStop
                 \/ DisconnectRelease(slot)
                 \/ DisconnectClearInfo(slot)]_vars

\* start_rtt called in every scan mode, with and without an address, on a
\* connected RTT slot; the target writes MaxEventsReplace events.
SpecScan ==
    RttInit([scan_mode : {"auto", "exact", "range"},
             address : {None, Some(DefaultRttAddress), Some(DefaultRttAddress + 1024)}],
            MaxEventsReplace)
        /\ [][\/ StartRttCheck
              \/ StartRttAttach
              \/ StopRtt
              \/ TaskStart
              \/ TaskPoll
              \/ TaskHandle
              \/ TaskFinish]_vars

\* The commands of both slots called one after the other on a connected or
\* empty Main slot and an empty RTT slot: connect, disconnect, flash,
\* verify, erase and memory access on the Main slot while no command of the
\* RTT slot is in progress, and connect, disconnect, start, stop and write
\* on the RTT slot while no command of the Main slot is in progress.
SpecFrame ==
    FlashStartsWith({f \in FirmwareFiles : f.ext = "hex"}, 0)
        /\ [][\/ /\ start.pc = "idle" /\ conn["rtt"].pc = "idle" /\ disc["rtt"] = "idle"
                 /\ \/ FlashBegin
                    \/ DownloadFails
                    \/ DownloadSucceeds
                    \/ FlashReset
                    \/ FlashComplete
                    \/ VerifyFirmware
                    \/ MemoryCommand
                    \/ EraseChip
                    \/ ConnectBegin("main")
                    \/ ConnectFails("main")
                    \/ ConnectStoreInfo("main")
                    \/ ConnectStoreSession("main")
                    \/ DisconnectRelease("main")
                    \/ DisconnectClearInfo("main")
              \/ /\ SessionLockFree /\ conn["main"].pc = "idle" /\ disc["main"] = "idle"
                 /\ \/ WriteRtt
                    \/ StartRttCheck
                    \/ StartRttAttach
                    \/ StopRtt
                    \/ ConnectBegin("rtt")
                    \/ ConnectFails("rtt")
                    \/ ConnectStoreInfo("rtt")
                    \/ ConnectStoreSession("rtt")
                    \/ DisconnectRttStop
                    \/ DisconnectRelease("rtt")
                    \/ DisconnectClearInfo("rtt")]_vars

\* C36: the Main slot and the RTT slot are independent: a step of
\* connect_target, disconnect, flash_firmware, verify_firmware, erase_chip
\* or a memory command leaves the RTT session, the RTT connection info and
\* the RTT running flag as they are, and a step of connect_rtt,
\* disconnect_rtt, start_rtt, stop_rtt or write_rtt leaves the Main session
\* and the Main connection info as they are.
C36_SlotsIndependent ==
    [][/\ (\/ ConnectBegin("main") \/ ConnectFails("main") \/ ConnectStoreInfo("main")
           \/ ConnectStoreSession("main") \/ DisconnectRelease("main")
           \/ DisconnectClearInfo("main") \/ FlashNext \/ MemoryCommand \/ EraseChip) =>
              /\ rtt_session' = rtt_session
              /\ rtt_connection_info' = rtt_connection_info
              /\ rtt_state'.running = rtt_state.running
       /\ (\/ ConnectBegin("rtt") \/ ConnectFails("rtt") \/ ConnectStoreInfo("rtt")
           \/ ConnectStoreSession("rtt") \/ DisconnectRttStop \/ DisconnectRelease("rtt")
           \/ DisconnectClearInfo("rtt") \/ StartRttCheck \/ StartRttAttach \/ StopRtt
           \/ WriteRtt) =>
              /\ session' = session
              /\ connection_info' = connection_info]_vars

\* The Main slot was disconnected after a write_memory, and the RTT slot
\* holds a session, its connection info and a running RTT.
C36_Witness ==
    /\ released = Some([slot |-> "main", ran |-> TRUE])
    /\ mem_result = "write_memory"
    /\ session = None
    /\ connection_info = None
    /\ IsSome(rtt_session)
    /\ IsSome(rtt_connection_info)
    /\ rtt_state.running

\* start_rtt and stop_rtt called again and again on a connected RTT slot
\* while the polling tasks run.
SpecTasks ==
    RttInit({[scan_mode |-> "exact", address |-> Some(DefaultRttAddress)]}, MaxEventsReplace)
        /\ [][\/ StartRttCheck
              \/ StartRttAttach
              \/ StartRttRespawn
              \/ PreviousTaskStep
              \/ StopRtt
              \/ TaskStart
              \/ TaskPoll
              \/ TaskHandle
              \/ TaskFinish]_vars

\* One RTT session polled.
SpecRtt ==
    RttInit({[scan_mode |-> "exact", address |-> Some(DefaultRttAddress)]}, MaxEvents)
        /\ [][\/ DisconnectRttStop
              \/ DisconnectRelease("rtt")
              \/ DisconnectClearInfo("rtt")
              \/ StartRttCheck
              \/ StartRttAttach
              \/ StopRtt
              \/ TaskStart
              \/ TaskPoll
              \/ TaskHandle
              \/ TaskFinish]_vars

\* The RTT session replaced while it is polled.
SpecReplace ==
    ReplaceInit
        /\ [][\/ ConnectBegin("rtt")
              \/ ConnectFails("rtt")
              \/ ConnectStoreInfo("rtt")
              \/ ConnectStoreSession("rtt")
              \/ DisconnectRttStop
              \/ DisconnectRelease("rtt")
              \/ DisconnectClearInfo("rtt")
              \/ StartRttCheck
              \/ StartRttAttach
              \/ StopRtt
              \/ TaskStart
              \/ TaskPoll
              \/ TaskHandle
              \/ TaskFinish]_vars

\* The application at rest and a pack operation about to be called.
PackInit(operation) ==
    /\ PdscInit
    /\ FlashRest
    /\ SlotRest
    /\ RttRest
    /\ PackStartsWith(operation)

\* Managers created, packs listed and packs deleted, with one or two packs
\* in the legacy directory.
SpecMigrate == PackInit("migrate") /\ [][PackManagerNew \/ ListPacks \/ DeletePack]_vars

\* extract_flash_algorithm_from_flm called once on each FLM file considered.
SpecFlm == PackInit("extract") /\ [][ExtractFlm]_vars

\* generate_probe_rs_yaml_with_algo called once on each pack considered.
SpecYaml == PackInit("generate") /\ [][GenerateYaml \/ GenerateYamlAgain]_vars

\* generate_scan_report called once on each pack considered.
SpecReport ==
    /\ PackInit("generate")
    /\ [][ScanReportBegin \/ ScanReportAddDevice \/ ScanReportFinish]_vars

\* check_outdated_packs and rescan_pack on two imported packs.
SpecStore == PackInit("store") /\ [][CheckOutdatedPacks \/ RescanPack]_vars

\* list_probes called once on each set of probes considered.
SpecProbes == PackInit("list") /\ [][ListProbes]_vars

\* Calls on one local serial or TCP data source.
SpecSerial ==
    PackInit("serial")
        /\ [][SerialConnect \/ SerialDisconnect \/ SerialWrite \/ SerialRead
                  \/ SerialResetStats]_vars

\* The terminal commands and the polling tasks they spawn.
SpecPoll ==
    PackInit("poll")
        /\ [][\/ ConnectSerial
              \/ DisconnectSerial
              \/ StartSerial
              \/ StopSerial
              \/ \E i \in 1..MaxSerialTasks : SerialPollingTask(i)]_vars

\* Commands on MaxThreads threads and the RTT polling task taking the
\* mutexes of AppState.
SpecLocks ==
    PackInit("none")
        /\ [][\E t \in Threads : \/ CallCommand(t) \/ LockAcquire(t) \/ TryLockTimesOut(t)
                                  \/ GuardDrop(t) \/ ReturnEarly(t)]_vars

\* import_pack calls, two packs imported before.
SpecImport == PackInit("store") /\ [][\E archive \in PackArchives : ImportPack(archive)]_vars

====
